---- MODULE Spec2Model ----
(***************************************************************************)
(* The Xcode project generators of create-obsydian-app:                    *)
(*   - utils/xcodeProject.ts  (createMinimalProject, write, re-open,       *)
(*     enhanceProject, write), used by scaffoldApp;                        *)
(*   - project/xcode.ts       (the framework-linking generator, one build  *)
(*     of the whole object table, write, scheme), used by `obsydian init`. *)
(* A project document is an object table keyed by identifier; identifiers  *)
(* come from generateUUID, i.e. from Math.random.                          *)
(***************************************************************************)
EXTENDS Integers, Sequences, FiniteSets, TLC

\* ------------------------------------------------------------------ bounds
\* longest source-file list given to a generator
MaxSources == 2
\* how many times, within one pass, Math.random may return a value it
\* already returned in that pass
MaxCollisions == 1

\* ------------------------------------------------------------- small helpers
NoId == 0
NoPath == <<>>
Range(s) == {s[i] : i \in DOMAIN s}
Put(m, k, v) == (k :> v) @@ m
\* JavaScript's {...a, ...b}: b's keys win
Spread(a, b) == b @@ a

RECURSIVE PutSeq(_, _, _)
PutSeq(m, ks, vs) ==
  IF ks = <<>> THEN m ELSE PutSeq(Put(m, Head(ks), Head(vs)), Tail(ks), Tail(vs))

IndexOf(s, x) == IF \E i \in DOMAIN s : s[i] = x
                 THEN CHOOSE i \in DOMAIN s : s[i] = x /\ \A j \in 1..(i-1) : s[j] # x
                 ELSE 0
RemoveAt(s, i) == SubSeq(s, 1, i-1) \o SubSeq(s, i+1, Len(s))
InsertAt(s, i, x) == SubSeq(s, 1, i-1) \o <<x>> \o SubSeq(s, i, Len(s))

\* ------------------------------------------------------------------- paths
\* A path is the sequence of its segments; JoinSegs renders it with "/".
RECURSIVE JoinSegs(_)
JoinSegs(p) == IF p = <<>> THEN ""
               ELSE IF Len(p) = 1 THEN p[1]
               ELSE p[1] \o "/" \o JoinSegs(Tail(p))

RECURSIVE CommonPrefixLen(_, _)
CommonPrefixLen(a, b) ==
  IF a = <<>> \/ b = <<>> THEN 0
  ELSE IF Head(a) # Head(b) THEN 0
  ELSE 1 + CommonPrefixLen(Tail(a), Tail(b))

\* path.relative(from, to) for two absolute paths
Relative(from, to) ==
  LET n == CommonPrefixLen(from, to)
  IN  [i \in 1..(Len(from) - n) |-> ".."] \o SubSeq(to, n + 1, Len(to))

Dirname(p) == SubSeq(p, 1, Len(p) - 1)
Basename(p) == p[Len(p)]
\* path.basename(p, ext) on the file names the generators meet
BasenameNoExt(p, ext) ==
  CASE Basename(p) = "Obsydian.xcframework" /\ ext = ".xcframework" -> "Obsydian"
    [] Basename(p) = "Obsidian.icon" /\ ext = ".icon" -> "Obsidian"
    [] OTHER -> Basename(p)
\* path.extname(filename).toLowerCase()
Extname(name) ==
  CASE name \in {"main.m"} -> ".m"
    [] name \in {"main.cpp", "util.cpp", "src/main.cpp", "src/util.cpp"} -> ".cpp"
    [] OTHER -> ""

\* --------------------------------------------------------------- allocator
\* generateUUID concatenates two Math.random() draws and checks nothing: the
\* n identifiers of a pass are any n values.  Values never seen before are
\* named base+1, base+2, ... in drawing order; up to k draws repeat an
\* earlier value of the pass.
RECURSIVE Draws(_, _, _)
Draws(n, k, base) ==
  IF n = 0 THEN {<<>>}
  ELSE {Append(s, base + n) : s \in Draws(n - 1, k, base)}
       \cup (IF k = 0 THEN {}
             ELSE UNION {{Append(s, s[j]) : j \in 1..(n - 1)} : s \in Draws(n - 1, k - 1, base)})

\* ------------------------------------------------------------ object table
EmptyMap == <<>>
NoProject == [rootObject |-> NoId, objects |-> EmptyMap]
NoFile == [kind |-> "none"]
\* what an interrupted writeFile leaves behind
PartialFile == [kind |-> "partial"]
Quoted(s) == "\"" \o s \o "\""

PhaseKinds == {"PBXSourcesBuildPhase", "PBXFrameworksBuildPhase", "PBXResourcesBuildPhase",
               "PBXCopyFilesBuildPhase", "PBXShellScriptBuildPhase"}

\* the section order of the written document: nodes grouped by isa, the
\* groups in alphabetical order, each group by ascending identifier
IsaOrder == <<"PBXBuildFile", "PBXCopyFilesBuildPhase", "PBXFileReference",
              "PBXFrameworksBuildPhase", "PBXGroup", "PBXNativeTarget", "PBXProject",
              "PBXResourcesBuildPhase", "PBXShellScriptBuildPhase", "PBXSourcesBuildPhase",
              "XCBuildConfiguration", "XCConfigurationList">>

RECURSIVE SortIds(_)
SortIds(S) == IF S = {} THEN <<>>
              ELSE LET m == CHOOSE x \in S : \A y \in S : x <= y
                   IN  <<m>> \o SortIds(S \ {m})

RECURSIVE Sections(_, _)
Sections(objects, isas) ==
  IF isas = <<>> THEN <<>>
  ELSE LET ids == SortIds({id \in DOMAIN objects : objects[id].isa = Head(isas)})
       IN  [i \in 1..Len(ids) |-> <<ids[i], objects[ids[i]]>>] \o Sections(objects, Tail(isas))

\* build(json) of @bacons/xcode/json: the text of a project document
build(json) ==
  [kind |-> "pbxproj", archiveVersion |-> json.archiveVersion, objectVersion |-> json.objectVersion,
   objects |-> Sections(json.objects, IsaOrder), rootObject |-> json.rootObject]

\* the parser of @bacons/xcode: the document a text denotes
parse(text) ==
  [archiveVersion |-> text.archiveVersion, objectVersion |-> text.objectVersion,
   objects |-> [id \in {text.objects[i][1] : i \in DOMAIN text.objects} |->
                  (CHOOSE e \in Range(text.objects) : e[1] = id)[2]],
   rootObject |-> text.rootObject]

\* ===================================================== project/xcode.ts ====
\* getFileType
getFileType(filename) ==
  LET ext == Extname(filename)
  IN  CASE ext = ".m" -> "sourcecode.c.objc"
        [] ext = ".mm" -> "sourcecode.cpp.objcpp"
        [] ext = ".c" -> "sourcecode.c.c"
        [] ext \in {".cpp", ".cc"} -> "sourcecode.cpp.cpp"
        [] ext = ".swift" -> "sourcecode.swift"
        [] ext = ".h" -> "sourcecode.c.h"
        [] ext = ".hpp" -> "sourcecode.cpp.h"
        [] OTHER -> "text"

primaryPlatform(o) == IF "ios" \in Range(o.platforms) THEN "ios" ELSE "macos"
isIOS(o) == primaryPlatform(o) = "ios"
HasPath(p) == p # NoPath

\* number of generateUUID calls of one pass: 18 before the frameworkPath check
P_DrawsBeforeCheck == 18
P_NeededDraws(o) ==
  IF ~HasPath(o.frameworkPath) THEN P_DrawsBeforeCheck
  ELSE P_DrawsBeforeCheck + 2 + (IF isIOS(o) THEN 2 ELSE 0) + 2 * Len(o.sourceFiles) + 1
       + (IF HasPath(o.entitlementsPath) THEN 1 ELSE 0) + 1

\* the identifiers of the pass, in the order generateUUID is called
P_Uuids(o, u) ==
  LET b == P_DrawsBeforeCheck + 2 + (IF isIOS(o) THEN 2 ELSE 0)
      n == Len(o.sourceFiles)
      e == IF HasPath(o.entitlementsPath) THEN 1 ELSE 0
  IN  [rootObjectUUID |-> u[1], mainGroupUUID |-> u[2], productsGroupUUID |-> u[3],
       frameworksGroupUUID |-> u[4], targetUUID |-> u[5], targetConfigListUUID |-> u[6],
       projectConfigListUUID |-> u[7], debugConfigUUID |-> u[8], releaseConfigUUID |-> u[9],
       projectDebugConfigUUID |-> u[10], projectReleaseConfigUUID |-> u[11],
       sourcesPhaseUUID |-> u[12], frameworksPhaseUUID |-> u[13], resourcesPhaseUUID |-> u[14],
       productRefUUID |-> u[15], assetsCatalogBuildUUID |-> u[16],
       cocoaFrameworkRefUUID |-> u[17], cocoaFrameworkBuildUUID |-> u[18],
       obsydianFrameworkRefUUID |-> u[19], obsydianFrameworkBuildUUID |-> u[20],
       embedFrameworksPhaseUUID |-> IF isIOS(o) THEN u[21] ELSE NoId,
       embedFrameworksBuildFileUUID |-> IF isIOS(o) THEN u[22] ELSE NoId,
       fileRefUUID |-> [i \in 1..n |-> u[b + 2 * i - 1]],
       buildFileUUID |-> [i \in 1..n |-> u[b + 2 * i]],
       infoPlistRefUUID |-> u[b + 2 * n + 1],
       entitlementsRefUUID |-> IF e = 1 THEN u[b + 2 * n + 2] ELSE NoId,
       assetsCatalogUUID |-> u[b + 2 * n + 2 + e]]

P_frameworkAttributes == [ATTRIBUTES |-> <<"CodeSignOnCopy", "RemoveHeadersOnCopy">>]

P_fileRefs(o, u) ==
  LET id == P_Uuids(o, u)
      n == Len(o.sourceFiles)
      f1 == Put(EmptyMap, id.obsydianFrameworkRefUUID,
                [isa |-> "PBXFileReference", lastKnownFileType |-> "wrapper.xcframework",
                 path |-> JoinSegs(Relative(o.projectDir, o.frameworkPath)), sourceTree |-> "<group>"])
      f2 == PutSeq(f1, id.fileRefUUID,
                [i \in 1..n |-> [isa |-> "PBXFileReference",
                                 lastKnownFileType |-> getFileType(o.sourceFiles[i]),
                                 path |-> o.sourceFiles[i], sourceTree |-> "<group>"]])
      f3 == Put(f2, id.infoPlistRefUUID,
                [isa |-> "PBXFileReference", lastKnownFileType |-> "text.plist.xml",
                 path |-> o.infoPlistPath, sourceTree |-> "<group>"])
      f4 == IF HasPath(o.entitlementsPath)
            THEN Put(f3, id.entitlementsRefUUID,
                     [isa |-> "PBXFileReference", lastKnownFileType |-> "text.plist.entitlements",
                      path |-> JoinSegs(o.entitlementsPath), sourceTree |-> "<group>"])
            ELSE f3
      f5 == Put(f4, id.assetsCatalogUUID,
                [isa |-> "PBXFileReference", lastKnownFileType |-> "folder.assetcatalog",
                 path |-> "Assets.xcassets", sourceTree |-> "<group>"])
      f6 == Put(f5, id.cocoaFrameworkRefUUID,
                [isa |-> "PBXFileReference", lastKnownFileType |-> "wrapper.framework",
                 name |-> "Cocoa.framework", path |-> "System/Library/Frameworks/Cocoa.framework",
                 sourceTree |-> "SDKROOT"])
  IN  Put(f6, id.productRefUUID,
          [isa |-> "PBXFileReference", explicitFileType |-> "wrapper.application",
           includeInIndex |-> 0, path |-> o.projectName \o ".app",
           sourceTree |-> "BUILT_PRODUCTS_DIR"])

P_buildFiles(o, u) ==
  LET id == P_Uuids(o, u)
      n == Len(o.sourceFiles)
      b1 == Put(EmptyMap, id.obsydianFrameworkBuildUUID,
                [isa |-> "PBXBuildFile", fileRef |-> id.obsydianFrameworkRefUUID,
                 settings |-> P_frameworkAttributes])
      b2 == IF isIOS(o)
            THEN Put(b1, id.embedFrameworksBuildFileUUID,
                     [isa |-> "PBXBuildFile", fileRef |-> id.obsydianFrameworkRefUUID,
                      settings |-> P_frameworkAttributes])
            ELSE b1
      b3 == PutSeq(b2, id.buildFileUUID,
                [i \in 1..n |-> [isa |-> "PBXBuildFile", fileRef |-> id.fileRefUUID[i]]])
      b4 == Put(b3, id.cocoaFrameworkBuildUUID,
                [isa |-> "PBXBuildFile", fileRef |-> id.cocoaFrameworkRefUUID])
  IN  Put(b4, id.assetsCatalogBuildUUID,
          [isa |-> "PBXBuildFile", fileRef |-> id.assetsCatalogUUID])

\* --- build settings of the target (baseBuildSettings and its two overlays)
P_commonSettings(o) ==
  [ASSETCATALOG_COMPILER_APPICON_NAME |-> "AppIcon",
   ASSETCATALOG_COMPILER_GLOBAL_ACCENT_COLOR_NAME |-> "",
   CLANG_CXX_LANGUAGE_STANDARD |-> "gnu++20",
   CLANG_ENABLE_MODULES |-> "YES",
   CLANG_ENABLE_OBJC_ARC |-> "YES",
   CLANG_ENABLE_OBJC_WEAK |-> "YES",
   CODE_SIGN_STYLE |-> "Automatic",
   CURRENT_PROJECT_VERSION |-> "1",
   DEVELOPMENT_TEAM |-> o.teamId,
   GENERATE_INFOPLIST_FILE |-> "NO",
   INFOPLIST_FILE |-> o.infoPlistPath,
   MARKETING_VERSION |-> "1.0",
   PRODUCT_BUNDLE_IDENTIFIER |-> o.bundleId,
   PRODUCT_NAME |-> "$(TARGET_NAME)",
   SWIFT_EMIT_LOC_STRINGS |-> "YES"]

P_platformSettings(o) ==
  IF isIOS(o)
  THEN [INFOPLIST_KEY_UIApplicationSupportsIndirectInputEvents |-> "YES",
        INFOPLIST_KEY_UILaunchStoryboardName |-> "LaunchScreen",
        INFOPLIST_KEY_UISupportedInterfaceOrientations |->
          <<"UIInterfaceOrientationPortrait", "UIInterfaceOrientationLandscapeLeft",
            "UIInterfaceOrientationLandscapeRight">>,
        INFOPLIST_KEY_UISupportedInterfaceOrientations_iPad |->
          <<"UIInterfaceOrientationPortrait", "UIInterfaceOrientationPortraitUpsideDown",
            "UIInterfaceOrientationLandscapeLeft", "UIInterfaceOrientationLandscapeRight">>,
        IPHONEOS_DEPLOYMENT_TARGET |-> o.minimumOsVersion,
        LD_RUNPATH_SEARCH_PATHS |-> "$(inherited) @executable_path/Frameworks",
        SDKROOT |-> "iphoneos",
        TARGETED_DEVICE_FAMILY |-> "1,2"]
  ELSE [COMBINE_HIDPI_IMAGES |-> "YES",
        INFOPLIST_KEY_NSMainNibFile |-> "",
        INFOPLIST_KEY_NSPrincipalClass |-> "NSApplication",
        LD_RUNPATH_SEARCH_PATHS |-> "$(inherited) @executable_path/../Frameworks",
        MACOSX_DEPLOYMENT_TARGET |-> o.minimumOsVersion,
        SDKROOT |-> "macosx",
        ONLY_ACTIVE_ARCH |-> "YES"]

P_frameworkRelativeDir(o) == Relative(o.projectDir, Dirname(o.frameworkPath))
P_frameworkName(o) == BasenameNoExt(o.frameworkPath, ".xcframework")
P_headersPath(o, slice) ==
  JoinSegs(P_frameworkRelativeDir(o)
           \o <<P_frameworkName(o) \o ".xcframework", slice, P_frameworkName(o) \o ".framework",
                "Headers">>)

P_frameworkSettings(o) ==
  [FRAMEWORK_SEARCH_PATHS |-> <<"$(inherited)", Quoted(JoinSegs(P_frameworkRelativeDir(o)))>>,
   HEADER_SEARCH_PATHS |->
     <<"$(inherited)", Quoted(P_headersPath(o, "macos-arm64"))>>
     \o (IF "ios" \in Range(o.platforms) THEN <<Quoted(P_headersPath(o, "ios-arm64"))>> ELSE <<>>),
   OTHER_LDFLAGS |-> <<"$(inherited)", "-framework", "Obsydian">>]

baseBuildSettings(o) ==
  LET s1 == Spread(P_commonSettings(o), P_platformSettings(o))
      s2 == Spread(s1, P_frameworkSettings(o))
      s3 == IF isIOS(o) THEN Put(s2, "ALWAYS_EMBED_SWIFT_STANDARD_LIBRARIES", "NO") ELSE s2
  IN  IF HasPath(o.entitlementsPath)
      THEN Put(s3, "CODE_SIGN_ENTITLEMENTS", JoinSegs(o.entitlementsPath))
      ELSE s3

\* { ...baseBuildSettings, <overlay> }: a new map; `base` is the shared map as
\* the object literal leaves it
P_overlaid(base, overlay) == [base |-> base, buildSettings |-> Spread(base, overlay)]

P_debugOverlaid(o) ==
  P_overlaid(baseBuildSettings(o),
             [DEBUG_INFORMATION_FORMAT |-> "dwarf",
              GCC_DYNAMIC_NO_PIC |-> "NO",
              GCC_OPTIMIZATION_LEVEL |-> "0",
              GCC_PREPROCESSOR_DEFINITIONS |-> <<"DEBUG=1", "$(inherited)">>,
              MTL_ENABLE_DEBUG_INFO |-> "INCLUDE_SOURCE",
              MTL_FAST_MATH |-> "YES"])

P_debugConfig(o) ==
  [isa |-> "XCBuildConfiguration", name |-> "Debug",
   buildSettings |-> P_debugOverlaid(o).buildSettings]

\* releaseConfig is composed after debugConfig, from the same base map
P_releaseOverlaid(o) ==
  P_overlaid(P_debugOverlaid(o).base,
             Spread([COPY_PHASE_STRIP |-> "NO",
                     DEBUG_INFORMATION_FORMAT |-> "dwarf-with-dsym",
                     ENABLE_NS_ASSERTIONS |-> "NO",
                     MTL_ENABLE_DEBUG_INFO |-> "NO",
                     MTL_FAST_MATH |-> "YES"],
                    IF primaryPlatform(o) = "macos" THEN [ONLY_ACTIVE_ARCH |-> "YES"]
                    ELSE EmptyMap))

P_releaseConfig(o) ==
  [isa |-> "XCBuildConfiguration", name |-> "Release",
   buildSettings |-> P_releaseOverlaid(o).buildSettings]

\* --- project-level build settings
projectBuildSettings(o) ==
  Spread([ALWAYS_SEARCH_USER_PATHS |-> "NO",
          CLANG_ANALYZER_NONNULL |-> "YES",
          CLANG_ANALYZER_NUMBER_OBJECT_CONVERSION |-> "YES_AGGRESSIVE",
          CLANG_CXX_LANGUAGE_STANDARD |-> "gnu++20",
          CLANG_ENABLE_MODULES |-> "YES",
          CLANG_ENABLE_OBJC_ARC |-> "YES",
          CLANG_ENABLE_OBJC_WEAK |-> "YES",
          CLANG_WARN_BLOCK_CAPTURE_AUTORELEASING |-> "YES",
          CLANG_WARN_BOOL_CONVERSION |-> "YES",
          CLANG_WARN_COMMA |-> "YES",
          CLANG_WARN_CONSTANT_CONVERSION |-> "YES",
          CLANG_WARN_DEPRECATED_OBJC_IMPLEMENTATIONS |-> "YES",
          CLANG_WARN_DIRECT_OBJC_ISA_USAGE |-> "YES_ERROR",
          CLANG_WARN_DOCUMENTATION_COMMENTS |-> "YES",
          CLANG_WARN_EMPTY_BODY |-> "YES",
          CLANG_WARN_ENUM_CONVERSION |-> "YES",
          CLANG_WARN_INFINITE_RECURSION |-> "YES",
          CLANG_WARN_INT_CONVERSION |-> "YES",
          CLANG_WARN_NON_LITERAL_NULL_CONVERSION |-> "YES",
          CLANG_WARN_OBJC_IMPLICIT_RETAIN_SELF |-> "YES",
          CLANG_WARN_OBJC_LITERAL_CONVERSION |-> "YES",
          CLANG_WARN_OBJC_ROOT_CLASS |-> "YES_ERROR",
          CLANG_WARN_QUOTED_INCLUDE_IN_FRAMEWORK_HEADER |-> "YES",
          CLANG_WARN_RANGE_LOOP_ANALYSIS |-> "YES",
          CLANG_WARN_STRICT_PROTOTYPES |-> "YES",
          CLANG_WARN_SUSPICIOUS_MOVE |-> "YES",
          CLANG_WARN_UNGUARDED_AVAILABILITY |-> "YES_AGGRESSIVE",
          CLANG_WARN_UNREACHABLE_CODE |-> "YES",
          CLANG_WARN__DUPLICATE_METHOD_MATCH |-> "YES",
          COPY_PHASE_STRIP |-> "NO",
          ENABLE_STRICT_OBJC_MSGSEND |-> "YES",
          GCC_C_LANGUAGE_STANDARD |-> "gnu17",
          GCC_NO_COMMON_BLOCKS |-> "YES",
          GCC_WARN_64_TO_32_BIT_CONVERSION |-> "YES",
          GCC_WARN_ABOUT_RETURN_TYPE |-> "YES_ERROR",
          GCC_WARN_UNDECLARED_SELECTOR |-> "YES",
          GCC_WARN_UNINITIALIZED_AUTOS |-> "YES_AGGRESSIVE",
          GCC_WARN_UNUSED_FUNCTION |-> "YES",
          GCC_WARN_UNUSED_VARIABLE |-> "YES",
          MTL_ENABLE_DEBUG_INFO |-> "INCLUDE_SOURCE",
          MTL_FAST_MATH |-> "YES"],
         IF "ios" \in Range(o.platforms)
         THEN [IPHONEOS_DEPLOYMENT_TARGET |-> o.minimumOsVersion, SDKROOT |-> "iphoneos"]
         ELSE [MACOSX_DEPLOYMENT_TARGET |-> o.minimumOsVersion, SDKROOT |-> "macosx"])

P_projectDebugConfig(o) ==
  [isa |-> "XCBuildConfiguration", name |-> "Debug",
   buildSettings |->
     Spread(projectBuildSettings(o),
            [DEBUG_INFORMATION_FORMAT |-> "dwarf",
             ENABLE_TESTABILITY |-> "YES",
             GCC_DYNAMIC_NO_PIC |-> "NO",
             GCC_OPTIMIZATION_LEVEL |-> "0",
             GCC_PREPROCESSOR_DEFINITIONS |-> <<"DEBUG=1", "$(inherited)">>,
             ONLY_ACTIVE_ARCH |-> "YES"])]

P_projectReleaseConfig(o) ==
  [isa |-> "XCBuildConfiguration", name |-> "Release",
   buildSettings |->
     Spread(projectBuildSettings(o),
            [DEBUG_INFORMATION_FORMAT |-> "dwarf-with-dsym",
             ENABLE_NS_ASSERTIONS |-> "NO",
             VALIDATE_PRODUCT |-> "YES"])]

\* --- build phases, lists, target, groups, root; the object table
BuildActionMask == 2147483647

P_buildPhases(o, u) ==
  LET id == P_Uuids(o, u)
  IN  <<id.sourcesPhaseUUID, id.frameworksPhaseUUID, id.resourcesPhaseUUID>>
      \o (IF isIOS(o) /\ id.embedFrameworksPhaseUUID # NoId
          THEN <<id.embedFrameworksPhaseUUID>> ELSE <<>>)

P_embedFrameworksPhase(o, u) ==
  [isa |-> "PBXCopyFilesBuildPhase", buildActionMask |-> BuildActionMask, dstPath |-> "",
   dstSubfolderSpec |-> 10, files |-> <<P_Uuids(o, u).embedFrameworksBuildFileUUID>>,
   name |-> "Embed Frameworks", runOnlyForDeploymentPostprocessing |-> 0]

P_mainGroupChildren(o, u) ==
  LET id == P_Uuids(o, u)
  IN  id.fileRefUUID \o <<id.infoPlistRefUUID>>
      \o (IF HasPath(o.entitlementsPath) THEN <<id.entitlementsRefUUID>> ELSE <<>>)
      \o <<id.assetsCatalogUUID>>

P_objects(o, u) ==
  LET id == P_Uuids(o, u)
      literal ==
        PutSeq(EmptyMap,
          <<id.rootObjectUUID, id.mainGroupUUID, id.productsGroupUUID, id.frameworksGroupUUID,
            id.targetUUID, id.targetConfigListUUID, id.projectConfigListUUID,
            id.sourcesPhaseUUID, id.frameworksPhaseUUID, id.resourcesPhaseUUID,
            id.debugConfigUUID, id.releaseConfigUUID, id.projectDebugConfigUUID,
            id.projectReleaseConfigUUID>>,
          << \* rootObject
            [isa |-> "PBXProject",
             attributes |-> [BuildIndependentTargetsInParallel |-> 1, LastUpgradeCheck |-> "1500",
                             TargetAttributes |-> (id.targetUUID :> [CreatedOnToolsVersion |-> "15.0"])],
             buildConfigurationList |-> id.projectConfigListUUID,
             compatibilityVersion |-> "Xcode 14.0", developmentRegion |-> "en",
             hasScannedForEncodings |-> 0, knownRegions |-> <<"en", "Base">>,
             mainGroup |-> id.mainGroupUUID, productRefGroup |-> id.productsGroupUUID,
             projectDirPath |-> "", projectRoot |-> "", targets |-> <<id.targetUUID>>],
            \* mainGroup
            [isa |-> "PBXGroup",
             children |-> P_mainGroupChildren(o, u) \o <<id.frameworksGroupUUID, id.productsGroupUUID>>,
             sourceTree |-> "<group>"],
            \* productsGroup
            [isa |-> "PBXGroup", children |-> <<id.productRefUUID>>, name |-> "Products",
             sourceTree |-> "<group>"],
            \* frameworksGroup
            [isa |-> "PBXGroup",
             children |-> <<id.cocoaFrameworkRefUUID, id.obsydianFrameworkRefUUID>>,
             name |-> "Frameworks", sourceTree |-> "<group>"],
            \* nativeTarget
            [isa |-> "PBXNativeTarget", buildConfigurationList |-> id.targetConfigListUUID,
             buildPhases |-> P_buildPhases(o, u), buildRules |-> <<>>, dependencies |-> <<>>,
             name |-> o.projectName, productName |-> o.projectName,
             productReference |-> id.productRefUUID,
             productType |-> "com.apple.product-type.application"],
            \* targetConfigList, projectConfigList
            [isa |-> "XCConfigurationList",
             buildConfigurations |-> <<id.debugConfigUUID, id.releaseConfigUUID>>,
             defaultConfigurationIsVisible |-> 0, defaultConfigurationName |-> "Release"],
            [isa |-> "XCConfigurationList",
             buildConfigurations |-> <<id.projectDebugConfigUUID, id.projectReleaseConfigUUID>>,
             defaultConfigurationIsVisible |-> 0, defaultConfigurationName |-> "Release"],
            \* sourcesPhase, frameworksPhase, resourcesPhase
            [isa |-> "PBXSourcesBuildPhase", buildActionMask |-> BuildActionMask,
             files |-> id.buildFileUUID, runOnlyForDeploymentPostprocessing |-> 0],
            [isa |-> "PBXFrameworksBuildPhase", buildActionMask |-> BuildActionMask,
             files |-> <<id.cocoaFrameworkBuildUUID, id.obsydianFrameworkBuildUUID>>,
             runOnlyForDeploymentPostprocessing |-> 0],
            [isa |-> "PBXResourcesBuildPhase", buildActionMask |-> BuildActionMask,
             files |-> <<id.assetsCatalogBuildUUID>>, runOnlyForDeploymentPostprocessing |-> 0],
            P_debugConfig(o), P_releaseConfig(o), P_projectDebugConfig(o),
            P_projectReleaseConfig(o) >>)
      spread == Spread(Spread(literal, P_fileRefs(o, u)), P_buildFiles(o, u))
  IN  IF isIOS(o) /\ id.embedFrameworksPhaseUUID # NoId
      THEN Put(spread, id.embedFrameworksPhaseUUID, P_embedFrameworksPhase(o, u))
      ELSE spread

projectJson(o, u) ==
  [archiveVersion |-> 1, objectVersion |-> 56, objects |-> P_objects(o, u),
   rootObject |-> P_Uuids(o, u).rootObjectUUID]

\* generateScheme: the three BuildableReference elements of the scheme
generateScheme(projectName, targetUUID) ==
  [kind |-> "xcscheme",
   buildableReferences |->
     [i \in 1..3 |-> [BlueprintIdentifier |-> targetUUID,
                      BuildableName |-> projectName \o ".app",
                      BlueprintName |-> projectName,
                      ReferencedContainer |-> "container:" \o projectName \o ".xcodeproj"]]]

\* ================================================= utils/xcodeProject.ts ====
\* the options generateXcodeProject hands to createMinimalProject and to
\* enhanceProject: every path made relative to appDir
U_relativeOptions(o) ==
  [o EXCEPT !.sourceFiles = [i \in 1..Len(o.sourceFiles) |-> JoinSegs(Relative(o.appDir, o.sourceFiles[i]))],
            !.infoPlistPath = JoinSegs(Relative(o.appDir, o.infoPlistPath)),
            !.entitlementsPath = IF HasPath(o.entitlementsPath)
                                 THEN Relative(o.appDir, o.entitlementsPath) ELSE NoPath,
            !.iconPath = IF HasPath(o.iconPath) THEN Relative(o.appDir, o.iconPath) ELSE NoPath]

U_FixedDraws == 14
U_NeededDraws(o) == U_FixedDraws + 2 * Len(o.sourceFiles) + 2

U_Uuids(r, u) ==
  LET n == Len(r.sourceFiles)
  IN  [rootObjectUUID |-> u[1], mainGroupUUID |-> u[2], productsGroupUUID |-> u[3],
       targetUUID |-> u[4], targetConfigListUUID |-> u[5], projectConfigListUUID |-> u[6],
       debugConfigUUID |-> u[7], releaseConfigUUID |-> u[8], projectDebugConfigUUID |-> u[9],
       projectReleaseConfigUUID |-> u[10], sourcesPhaseUUID |-> u[11],
       frameworksPhaseUUID |-> u[12], resourcesPhaseUUID |-> u[13], productRefUUID |-> u[14],
       fileRefUUID |-> [i \in 1..n |-> u[U_FixedDraws + 2 * i - 1]],
       buildFileUUID |-> [i \in 1..n |-> u[U_FixedDraws + 2 * i]],
       infoPlistRefUUID |-> u[U_FixedDraws + 2 * n + 1],
       infoPlistBuildFileUUID |-> u[U_FixedDraws + 2 * n + 2]]

\* Object.keys of a record filled in this order: each key once, at the place
\* of its first insertion
RECURSIVE KeysInOrder(_)
KeysInOrder(ks) ==
  IF ks = <<>> THEN <<>>
  ELSE LET front == KeysInOrder(SubSeq(ks, 1, Len(ks) - 1))
           last == ks[Len(ks)]
       IN  IF last \in Range(front) THEN front ELSE Append(front, last)

\* Array.prototype.filter with the test (uuid) => uuid !== x
FilterNot(s, x) ==
  LET F[i \in 0..Len(s)] ==
        IF i = 0 THEN <<>> ELSE IF s[i] # x THEN Append(F[i-1], s[i]) ELSE F[i-1]
  IN  F[Len(s)]

U_fileRefKeys(r, u) ==
  LET id == U_Uuids(r, u)
  IN  KeysInOrder(id.fileRefUUID \o <<id.infoPlistRefUUID, id.productRefUUID>>)

U_fileRefs(r, u) ==
  LET id == U_Uuids(r, u)
      n == Len(r.sourceFiles)
      f1 == PutSeq(EmptyMap, id.fileRefUUID,
                [i \in 1..n |-> [isa |-> "PBXFileReference", lastKnownFileType |-> "sourcecode.cpp.cpp",
                                 path |-> r.sourceFiles[i], sourceTree |-> "<group>"]])
      f2 == Put(f1, id.infoPlistRefUUID,
                [isa |-> "PBXFileReference", lastKnownFileType |-> "text.plist.xml",
                 path |-> r.infoPlistPath, sourceTree |-> "<group>"])
  IN  Put(f2, id.productRefUUID,
          [isa |-> "PBXFileReference", explicitFileType |-> "wrapper.application",
           includeInIndex |-> 0, path |-> r.executableName \o ".app",
           sourceTree |-> "BUILT_PRODUCTS_DIR"])

U_buildFiles(r, u) ==
  LET id == U_Uuids(r, u)
      n == Len(r.sourceFiles)
      b1 == PutSeq(EmptyMap, id.buildFileUUID,
                [i \in 1..n |-> [isa |-> "PBXBuildFile", fileRef |-> id.fileRefUUID[i]]])
  IN  Put(b1, id.infoPlistBuildFileUUID,
          [isa |-> "PBXBuildFile", fileRef |-> id.infoPlistRefUUID])

U_targetSettings(r) ==
  [CLANG_CXX_LANGUAGE_STANDARD |-> "c++20",
   MACOSX_DEPLOYMENT_TARGET |-> r.minimumOsVersion,
   PRODUCT_BUNDLE_IDENTIFIER |-> r.bundleId,
   PRODUCT_NAME |-> r.executableName,
   INFOPLIST_FILE |-> r.infoPlistPath,
   SDKROOT |-> "macosx",
   CODE_SIGN_STYLE |-> "Automatic",
   DEVELOPMENT_TEAM |-> ""]

U_projectSettings(r) ==
  [CLANG_CXX_LANGUAGE_STANDARD |-> "c++20",
   MACOSX_DEPLOYMENT_TARGET |-> r.minimumOsVersion,
   SDKROOT |-> "macosx"]

U_config(name, settings) ==
  [isa |-> "XCBuildConfiguration", name |-> name, buildSettings |-> settings]

U_objects(r, u) ==
  LET id == U_Uuids(r, u)
      literal ==
        PutSeq(EmptyMap,
          <<id.rootObjectUUID, id.mainGroupUUID, id.productsGroupUUID, id.targetUUID,
            id.targetConfigListUUID, id.projectConfigListUUID, id.sourcesPhaseUUID,
            id.frameworksPhaseUUID, id.resourcesPhaseUUID, id.debugConfigUUID,
            id.releaseConfigUUID, id.projectDebugConfigUUID, id.projectReleaseConfigUUID>>,
          << \* rootObject
            [isa |-> "PBXProject",
             attributes |-> [LastSwiftUpdateCheck |-> "2600", LastUpgradeCheck |-> "2600",
                             TargetAttributes |-> (id.targetUUID :> [CreatedOnToolsVersion |-> "26.0"])],
             buildConfigurationList |-> id.projectConfigListUUID,
             compatibilityVersion |-> "Xcode 26.0", developmentRegion |-> "en",
             hasScannedForEncodings |-> 0, knownRegions |-> <<"en", "Base">>,
             mainGroup |-> id.mainGroupUUID, productRefGroup |-> id.productsGroupUUID,
             projectDirPath |-> "", projectRoot |-> "", targets |-> <<id.targetUUID>>],
            \* mainGroup
            [isa |-> "PBXGroup",
             children |-> FilterNot(U_fileRefKeys(r, u), id.productRefUUID)
                          \o <<id.productsGroupUUID>>,
             sourceTree |-> "<group>"],
            \* productsGroup
            [isa |-> "PBXGroup", children |-> <<id.productRefUUID>>, name |-> "Products",
             sourceTree |-> "<group>"],
            \* nativeTarget
            [isa |-> "PBXNativeTarget", buildConfigurationList |-> id.targetConfigListUUID,
             buildPhases |-> <<id.sourcesPhaseUUID, id.frameworksPhaseUUID, id.resourcesPhaseUUID>>,
             buildRules |-> <<>>, dependencies |-> <<>>, name |-> r.appName,
             productName |-> r.executableName, productReference |-> id.productRefUUID,
             productType |-> "com.apple.product-type.application"],
            \* targetConfigList, projectConfigList
            [isa |-> "XCConfigurationList",
             buildConfigurations |-> <<id.debugConfigUUID, id.releaseConfigUUID>>,
             defaultConfigurationIsVisible |-> 0, defaultConfigurationName |-> "Release"],
            [isa |-> "XCConfigurationList",
             buildConfigurations |-> <<id.projectDebugConfigUUID, id.projectReleaseConfigUUID>>,
             defaultConfigurationIsVisible |-> 0, defaultConfigurationName |-> "Release"],
            \* sourcesPhase, frameworksPhase, resourcesPhase
            [isa |-> "PBXSourcesBuildPhase", buildActionMask |-> BuildActionMask,
             files |-> id.buildFileUUID, runOnlyForDeploymentPostprocessing |-> 0],
            [isa |-> "PBXFrameworksBuildPhase", buildActionMask |-> BuildActionMask,
             files |-> <<>>, runOnlyForDeploymentPostprocessing |-> 0],
            [isa |-> "PBXResourcesBuildPhase", buildActionMask |-> BuildActionMask,
             files |-> <<>>, runOnlyForDeploymentPostprocessing |-> 0],
            U_config("Debug", U_targetSettings(r)), U_config("Release", U_targetSettings(r)),
            U_config("Debug", U_projectSettings(r)), U_config("Release", U_projectSettings(r)) >>)
  IN  Spread(Spread(literal, U_fileRefs(r, u)), U_buildFiles(r, u))

createMinimalProject(r, u) ==
  [archiveVersion |-> 1, objectVersion |-> 56, objects |-> U_objects(r, u),
   rootObject |-> U_Uuids(r, u).rootObjectUUID]

\* --- the @bacons/xcode object model, as generateXcodeProject uses it
Isa(objects, id) == IF id \in DOMAIN objects THEN objects[id].isa ELSE "missing"
AllIsa(objects, ids, kinds) == \A i \in DOMAIN ids : Isa(objects, ids[i]) \in kinds

\* XcodeProject.open inflates every node by its isa and every reference by
\* the kind its field holds.  @bacons/xcode is not among the sources; it is
\* taken to throw on a text that is no document and on a reference that
\* resolves to no node or to a node of another kind.
WellKinded(doc) ==
  LET objs == doc.objects
  IN  /\ Isa(objs, doc.rootObject) = "PBXProject"
      /\ \A id \in DOMAIN objs :
           LET node == objs[id]
           IN  CASE node.isa = "PBXProject" ->
                      /\ Isa(objs, node.mainGroup) = "PBXGroup"
                      /\ Isa(objs, node.productRefGroup) = "PBXGroup"
                      /\ Isa(objs, node.buildConfigurationList) = "XCConfigurationList"
                      /\ AllIsa(objs, node.targets, {"PBXNativeTarget"})
                 [] node.isa = "PBXNativeTarget" ->
                      /\ Isa(objs, node.buildConfigurationList) = "XCConfigurationList"
                      /\ Isa(objs, node.productReference) = "PBXFileReference"
                      /\ AllIsa(objs, node.buildPhases, PhaseKinds)
                 [] node.isa = "PBXGroup" ->
                      AllIsa(objs, node.children, {"PBXGroup", "PBXFileReference"})
                 [] node.isa \in PhaseKinds -> AllIsa(objs, node.files, {"PBXBuildFile"})
                 [] node.isa = "PBXBuildFile" -> Isa(objs, node.fileRef) = "PBXFileReference"
                 [] node.isa = "XCConfigurationList" ->
                      AllIsa(objs, node.buildConfigurations, {"XCBuildConfiguration"})
                 [] OTHER -> TRUE

openThrows(text) == text.kind # "pbxproj" \/ ~WellKinded(parse(text))

\* the identifier the library gives a node it creates: a hash of the node's
\* content, re-hashed until it is no key of the table.  Its format differs
\* from generateUUID's, so it is drawn from a range of its own.
LibBase == 1000
LibId(objects) == LibBase + 1 + Cardinality({id \in DOMAIN objects : id > LibBase})

PushChild(objects, group, child) ==
  [objects EXCEPT ![group].children = Append(@, child)]
PushFile(objects, phase, file) ==
  [objects EXCEPT ![phase].files = Append(@, file)]

\* PBXNativeTarget.getBuildPhase: the first phase of that isa, NoId if none
getBuildPhase(objects, target, isa) ==
  LET bp == objects[target].buildPhases
      hits == {i \in DOMAIN bp : objects[bp[i]].isa = isa}
  IN  IF hits = {} THEN NoId ELSE bp[CHOOSE i \in hits : \A j \in hits : i <= j]

\* PBXNativeTarget.createBuildPhase: a new phase node, put into buildPhases
\* at the position `at` (0-based) the library picks; the callers do not rely
\* on that position, so any is allowed
createBuildPhase(objects, target, node, at) ==
  LET id == LibId(objects)
      bp == objects[target].buildPhases
      k == IF at > Len(bp) THEN Len(bp) ELSE at
  IN  [Put(objects, id, node) EXCEPT ![target].buildPhases = InsertAt(bp, k + 1, id)]

\* getFrameworksBuildPhase / getResourcesBuildPhase: find, else create
ensureBuildPhase(objects, target, isa, at) ==
  IF getBuildPhase(objects, target, isa) # NoId THEN objects
  ELSE createBuildPhase(objects, target,
         [isa |-> isa, buildActionMask |-> BuildActionMask, files |-> <<>>,
          runOnlyForDeploymentPostprocessing |-> 0], at)

\* --- enhanceProject
U_iconName(r) == IF HasPath(r.iconPath) THEN BasenameNoExt(r.iconPath, ".icon") ELSE ""
U_relativeObsidianPath(r) == JoinSegs(Relative(r.appDir, r.obsidianPath))

\* a variant of U_withEntitlementsFile: the reference joins the main group, the
\* node is never put into the table
U_withEntitlementsFile_NoNode(objects, r, mainGroup) ==
  IF HasPath(r.entitlementsPath) THEN PushChild(objects, mainGroup, LibId(objects)) ELSE objects

\* mainGroup.createFile for the entitlements file: a file reference, child of the main group
U_withEntitlementsFile(objects, r, mainGroup) ==
  IF HasPath(r.entitlementsPath)
  THEN LET id == LibId(objects)
       IN  PushChild(Put(objects, id, [isa |-> "PBXFileReference",
                                       path |-> JoinSegs(r.entitlementsPath),
                                       sourceTree |-> "<group>"]),
                     mainGroup, id)
  ELSE objects

U_withIcon(objects, r, mainGroup, mainTarget, iconOnDisk, at) ==
  IF HasPath(r.iconPath) /\ iconOnDisk
  THEN LET iconFileRef == LibId(objects)
           a == PushChild(Put(objects, iconFileRef,
                              [isa |-> "PBXFileReference", path |-> JoinSegs(r.iconPath),
                               sourceTree |-> "<group>",
                               lastKnownFileType |-> "folder.iconcomposer.icon"]),
                          mainGroup, iconFileRef)
       IN  IF a[mainTarget].isa = "PBXNativeTarget"
           THEN LET b == ensureBuildPhase(a, mainTarget, "PBXResourcesBuildPhase", at)
                    resourcesPhase == getBuildPhase(b, mainTarget, "PBXResourcesBuildPhase")
                    iconBuildFile == LibId(b)
                IN  PushFile(Put(b, iconBuildFile, [isa |-> "PBXBuildFile", fileRef |-> iconFileRef]),
                             resourcesPhase, iconBuildFile)
           ELSE a
  ELSE objects

\* a variant of relocate: the place createBuildPhase chose is kept
relocate_Trusting(buildPhases, buildScript, frameworksPhase) == buildPhases

\* the relocation taking the script phase out and not putting it back
relocate_Dropping(buildPhases, buildScript, frameworksPhase) ==
  LET scriptIndex == IndexOf(buildPhases, buildScript)
      frameworksIndex == IndexOf(buildPhases, frameworksPhase)
  IN  IF scriptIndex # 0 /\ frameworksIndex # 0 /\ scriptIndex > frameworksIndex
      THEN RemoveAt(buildPhases, scriptIndex)
      ELSE buildPhases

\* the relocation of the script phase in front of the Frameworks phase
relocate(buildPhases, buildScript, frameworksPhase) ==
  LET scriptIndex == IndexOf(buildPhases, buildScript)
      frameworksIndex == IndexOf(buildPhases, frameworksPhase)
  IN  IF scriptIndex # 0 /\ frameworksIndex # 0 /\ scriptIndex > frameworksIndex
      THEN InsertAt(RemoveAt(buildPhases, scriptIndex), frameworksIndex, buildScript)
      ELSE buildPhases

\* the script phase created and the Frameworks phase looked up: the block up
\* to the relocation
U_buildScriptCreated(objects, r, mainTarget, at) ==
  IF HasPath(r.obsidianPath) /\ objects[mainTarget].isa = "PBXNativeTarget"
  THEN LET a == createBuildPhase(objects, mainTarget,
                  [isa |-> "PBXShellScriptBuildPhase", name |-> "Build Obsidian Library",
                   shellScript |-> "set -e; cd " \o Quoted(U_relativeObsidianPath(r))
                                   \o "; $BAZEL_CMD build //src:obsidian_impl //core:runtime //core:ffi_base //packages/apple:apple_ffi //packages/apple:apple_objc_bridge --config=macos",
                   shellPath |-> "/bin/sh", inputPaths |-> <<>>, outputPaths |-> <<>>,
                   files |-> <<>>, showEnvVarsInLog |-> 0], at)
       IN  ensureBuildPhase(a, mainTarget, "PBXFrameworksBuildPhase", at)
  ELSE objects

U_withBuildScript(objects, r, mainTarget, at) ==
  IF HasPath(r.obsidianPath) /\ objects[mainTarget].isa = "PBXNativeTarget"
  THEN LET buildScript == LibId(objects)
           b == U_buildScriptCreated(objects, r, mainTarget, at)
           frameworksPhase == getBuildPhase(b, mainTarget, "PBXFrameworksBuildPhase")
       IN  [b EXCEPT ![mainTarget].buildPhases = relocate(@, buildScript, frameworksPhase)]
  ELSE objects

U_headerSearchPaths(r) ==
  IF HasPath(r.obsidianPath)
  THEN <<Quoted("$(SRCROOT)/" \o JoinSegs(Relative(r.appDir, r.obsidianPath \o <<"include">>)))>>
  ELSE <<>>
U_bazelBinBase(r) == Quoted("$(SRCROOT)/" \o U_relativeObsidianPath(r) \o "/bazel-bin")
U_librarySearchPaths(r) ==
  IF HasPath(r.obsidianPath)
  THEN <<U_bazelBinBase(r) \o "/src", U_bazelBinBase(r) \o "/core",
         U_bazelBinBase(r) \o "/packages/apple">>
  ELSE <<>>
U_otherLdFlags(r) ==
  IF HasPath(r.obsidianPath)
  THEN <<"-lobsidian_impl", "-lruntime", "-lffi_base", "-lapple_ffi", "-lapple_objc_bridge",
         "-framework", "AppKit", "-framework", "Foundation">>
  ELSE <<>>

\* the settings Object.assign lays over a configuration's buildSettings
U_enhancedSettings(r, name) ==
  LET paths(list) == IF Len(list) > 0 THEN list \o <<"$(inherited)">> ELSE <<"$(inherited)">>
      s1 == [ALWAYS_SEARCH_USER_PATHS |-> "NO",
             CLANG_ANALYZER_NONNULL |-> "YES",
             CLANG_CXX_LANGUAGE_STANDARD |-> "c++20",
             CLANG_ENABLE_MODULES |-> "YES",
             CLANG_ENABLE_OBJC_ARC |-> "YES",
             CLANG_ENABLE_OBJC_WEAK |-> "YES",
             CODE_SIGN_STYLE |-> "Automatic",
             COPY_PHASE_STRIP |-> "NO",
             DEBUG_INFORMATION_FORMAT |-> IF name = "Debug" THEN "dwarf" ELSE "dwarf-with-dsym",
             ENABLE_STRICT_OBJC_MSGSEND |-> "YES",
             GCC_C_LANGUAGE_STANDARD |-> "gnu11",
             GCC_WARN_64_TO_32_BIT_CONVERSION |-> "YES",
             GCC_WARN_ABOUT_RETURN_TYPE |-> "YES_ERROR",
             GCC_WARN_UNINITIALIZED_AUTOS |-> "YES_AGGRESSIVE",
             GCC_WARN_UNUSED_FUNCTION |-> "YES",
             GCC_WARN_UNUSED_VARIABLE |-> "YES",
             HEADER_SEARCH_PATHS |-> paths(U_headerSearchPaths(r)),
             LIBRARY_SEARCH_PATHS |-> paths(U_librarySearchPaths(r)),
             OTHER_LDFLAGS |-> paths(U_otherLdFlags(r)),
             MACOSX_DEPLOYMENT_TARGET |-> r.minimumOsVersion,
             PRODUCT_BUNDLE_IDENTIFIER |-> r.bundleId,
             SDKROOT |-> "macosx",
             ARCHS |-> "arm64"]
      s2 == IF HasPath(r.entitlementsPath)
            THEN Put(s1, "CODE_SIGN_ENTITLEMENTS", JoinSegs(r.entitlementsPath)) ELSE s1
      s3 == IF U_iconName(r) # ""
            THEN Put(s2, "ASSETCATALOG_COMPILER_APPICON_NAME", U_iconName(r)) ELSE s2
      s4 == Put(s3, "INFOPLIST_ENABLE_CFBUNDLEICONS_MERGE", "YES")
  IN  Spread(s4, IF name = "Debug"
                 THEN [GCC_OPTIMIZATION_LEVEL |-> 0,
                       GCC_PREPROCESSOR_DEFINITIONS |-> <<"DEBUG=1", "$(inherited)">>]
                 ELSE [ENABLE_NS_ASSERTIONS |-> "NO"])

RECURSIVE U_withSettings(_, _, _)
U_withSettings(objects, r, configs) ==
  IF configs = <<>> THEN objects
  ELSE LET config == Head(configs)
       IN  U_withSettings(
             [objects EXCEPT ![config].buildSettings =
                Spread(@, U_enhancedSettings(r, objects[config].name))],
             r, Tail(configs))

enhanceThrows(project) ==
  Len(project.objects[project.rootObject].targets) = 0

\* the first part of enhanceProject: the entitlements and icon nodes, the
\* script phase and its relocation; iconOnDisk is what pathExists answers,
\* `at` the place createBuildPhase puts a new phase
enhanceNodes(project, r, iconOnDisk, at) ==
  LET root == project.objects[project.rootObject]
      mainGroup == root.mainGroup
      mainTarget == root.targets[1]
      a == U_withEntitlementsFile(project.objects, r, mainGroup)
      b == U_withIcon(a, r, mainGroup, mainTarget, iconOnDisk, at)
  IN  [project EXCEPT !.objects = U_withBuildScript(b, r, mainTarget, at)]

\* the target's buildPhases in enhanceProject as the relocation finds them
phasesBeforeRelocation(project, r, iconOnDisk, at) ==
  LET root == project.objects[project.rootObject]
      mainTarget == root.targets[1]
      a == U_withEntitlementsFile(project.objects, r, root.mainGroup)
      b == U_withIcon(a, r, root.mainGroup, mainTarget, iconOnDisk, at)
  IN  U_buildScriptCreated(b, r, mainTarget, at)[mainTarget].buildPhases

\* the second part of enhanceProject: the loop over the target's configurations
enhanceSettings(project, r) ==
  LET c == project.objects
      mainTarget == c[project.rootObject].targets[1]
      configList == c[mainTarget].buildConfigurationList
  IN  [project EXCEPT !.objects = U_withSettings(c, r, c[configList].buildConfigurations)]

\* enhanceProject(project, options)
enhanceProject(project, r, iconOnDisk, at) ==
  enhanceSettings(enhanceNodes(project, r, iconOnDisk, at), r)

\* =============================================================== the machine
VARIABLES
  pc,      \* where the running generateXcodeProject stands ("idle": not called yet)
  opts,    \* the options it was called with
  uuids,   \* the values generateUUID returns during this pass, in calling order
  drawn,   \* how many values Math.random-based draws have been made so far
  mem,     \* the pass's locals: fileRefs, buildFiles, baseBuildSettings, the document
  disk,    \* the .xcodeproj directory, project.pbxproj, the scheme, the .icon package
  prev,    \* project.pbxproj as the previous pass left it (two passes only)
  scaffold, \* scaffoldApp: how far it is, what it generated, what it returned
  token,    \* generateUUID: the text it is putting together, the lengths it returned
  initCmd,  \* commands/init.ts: how far the action is, what it decided and wrote
  menu,     \* commands/menu.ts: the loop's position, its page, what it last showed
  sim,      \* runXcodeAsync on an iOS Simulator: its position, the simctl calls so far
  cache     \* framework-downloader: ~/.obsydian/frameworks, projects, calls made

\* the state of one pass of a generator
genVars == <<pc, opts, uuids, drawn, mem, disk, prev>>

\* what lies outside a pass; the generators' stages leave it alone
outerVars == <<scaffold, token, initCmd, menu, sim, cache>>

vars == <<pc, opts, uuids, drawn, mem, disk, prev, scaffold, token, initCmd, menu, sim, cache>>

\* phasesBefore keeps the target's buildPhases as the relocation found them
NoMem == [fileRefs |-> EmptyMap, buildFiles |-> EmptyMap, baseBuildSettings |-> EmptyMap,
          project |-> NoProject, phasesBefore |-> <<>>]
\* pbxprojWrites counts the writeFile calls of the running pass that have
\* written project.pbxproj
NoDisk == [dir |-> FALSE, pbxproj |-> NoFile, schemesDir |-> FALSE, scheme |-> NoFile,
           icon |-> FALSE, pbxprojWrites |-> 0]

SeqsUpTo(S, n) == UNION {[1..k -> S] : k \in 0..n}

U_AppDir == <<"work", "my-app">>
U_Options ==
  {[gen |-> "utils", appName |-> "My App", appDir |-> U_AppDir, bundleId |-> "com.example.myapp",
    executableName |-> "MyApp", minimumOsVersion |-> "26.0",
    sourceFiles |-> [i \in 1..Len(sf) |-> U_AppDir \o <<sf[i]>>],
    infoPlistPath |-> U_AppDir \o <<"Info.plist">>,
    entitlementsPath |-> ent, iconPath |-> icon, obsidianPath |-> obs] :
     sf \in SeqsUpTo({"main.cpp", "util.cpp"}, MaxSources),
     ent \in {NoPath, U_AppDir \o <<"entitlements.plist">>},
     icon \in {NoPath, U_AppDir \o <<"Obsidian.icon">>},
     obs \in {NoPath, <<"work", "obsidian">>}}

P_ProjectDir == <<"work", "MyApp">>
P_Options ==
  {[gen |-> "project", projectDir |-> P_ProjectDir, projectName |-> "MyApp",
    bundleId |-> "com.example.MyApp", platforms |-> pl, sourceFiles |-> sf,
    infoPlistPath |-> "Info.plist", entitlementsPath |-> ent, minimumOsVersion |-> "14.0",
    teamId |-> "", frameworkPath |-> fw] :
     pl \in {<<"macos">>, <<"ios">>, <<"macos", "ios">>},
     sf \in SeqsUpTo({"main.m", "util.cpp"}, MaxSources),
     ent \in {NoPath, <<"entitlements.plist">>},
     fw \in {NoPath, P_ProjectDir \o <<"Frameworks", "Obsydian.xcframework">>}}

\* generateUUID not called yet in this pass
NoToken == [first |-> <<>>, half |-> FALSE, uuid |-> <<>>, lengths |-> {}, count |-> 0]

\* no action chosen in the menu
NoAction == [type |-> "", page |-> "", argv |-> <<>>]

\* runXcodeAsync has not reached the simulator branch
NoSim == [stage |-> "idle", attempt |-> 0, shouldOpenSimulator |-> FALSE,
          log |-> <<>>, code |-> 0]

\* the framework versions asked for
FrameworkVersions == {"1.0.0", "1.1.0"}

\* how many times downloadFrameworkWithCache is called
MaxDownloads == 3

\* nothing downloaded, nothing cached, nothing copied into a project.
\* frameworks[v]: ~/.obsydian/frameworks/<v>/Obsydian.xcframework, "none" when
\* absent, "valid" when validateFramework accepts it, "invalid" when not;
\* zip: Obsydian.xcframework.zip of the running download; copied: what each
\* call put into its project's Frameworks directory.
NoCache == [stage |-> "idle", version |-> "", calls |-> 0, zip |-> "none",
            frameworks |-> [v \in FrameworkVersions |-> "none"], copied |-> {}]

\* runInteractiveMenuAsync not called
NoMenu == [stage |-> "idle", page |-> "", inProject |-> FALSE, action |-> NoAction,
           returnPage |-> "", shown |-> "", launched |-> "", fellBack |-> FALSE, code |-> 0,
           escAt |-> "", escPage |-> ""]

\* obsydian init not started
NoInit == [stage |-> "idle", platforms |-> <<>>, frameworkPath |-> NoPath,
           configFramework |-> FALSE, downloadFailed |-> FALSE, mainSource |-> "",
           files |-> {}]

\* scaffoldApp not called
NoScaffold == [stage |-> "idle"]

Init ==
  /\ pc = "idle"
  /\ opts = [gen |-> "none"]
  /\ uuids = <<>>
  /\ drawn = 0
  /\ mem = NoMem
  /\ disk = NoDisk
  /\ prev = NoFile
  /\ scaffold = NoScaffold
  /\ token = NoToken
  /\ initCmd = NoInit
  /\ menu = NoMenu
  /\ sim = NoSim
  /\ cache = NoCache

\* writeFile throwing leaves the file as it was, or cut short
FailedWrite(old) == {old, PartialFile}

\* ---- utils/xcodeProject.ts : generateXcodeProject
U_Invoke(repeats) ==
  /\ pc = "idle"
  /\ \E o \in U_Options, iconOnDisk \in BOOLEAN :
       /\ iconOnDisk => HasPath(o.iconPath)
       /\ opts' = o
       /\ disk' = [disk EXCEPT !.icon = iconOnDisk]
       /\ \E u \in Draws(U_NeededDraws(o), repeats, drawn) : uuids' = u
       /\ drawn' = drawn + U_NeededDraws(o)
  /\ pc' = "u_ensureDirectory"
  /\ UNCHANGED <<mem, prev>>
  /\ UNCHANGED outerVars

U_EnsureDirectory ==
  /\ pc = "u_ensureDirectory"
  /\ disk' = [disk EXCEPT !.dir = TRUE]
  /\ pc' = "u_createMinimalProject"
  /\ UNCHANGED <<opts, uuids, drawn, mem, prev>>
  /\ UNCHANGED outerVars

U_CreateMinimalProject ==
  /\ pc = "u_createMinimalProject"
  /\ mem' = [fileRefs |-> U_fileRefs(U_relativeOptions(opts), uuids),
             buildFiles |-> U_buildFiles(U_relativeOptions(opts), uuids),
             baseBuildSettings |-> EmptyMap,
             project |-> createMinimalProject(U_relativeOptions(opts), uuids),
             phasesBefore |-> <<>>]
  /\ pc' = "u_writeInitial"
  /\ UNCHANGED <<opts, uuids, drawn, disk, prev>>
  /\ UNCHANGED outerVars

\* a variant that keeps a project.pbxproj it finds at the target path
U_WriteInitial_KeepExisting ==
  /\ pc = "u_writeInitial"
  /\ disk' = IF disk.pbxproj = NoFile
             THEN [disk EXCEPT !.pbxproj = build(mem.project), !.pbxprojWrites = @ + 1]
             ELSE disk
  /\ pc' = "u_open"
  /\ UNCHANGED <<opts, uuids, drawn, mem, prev>>
  /\ UNCHANGED outerVars

U_WriteInitial ==
  /\ pc = "u_writeInitial"
  /\ \/ /\ disk' = [disk EXCEPT !.pbxproj = build(mem.project), !.pbxprojWrites = @ + 1]
        /\ pc' = "u_open"
     \/ /\ \E left \in FailedWrite(disk.pbxproj) : disk' = [disk EXCEPT !.pbxproj = left]
        /\ pc' = "failed"
  /\ UNCHANGED <<opts, uuids, drawn, mem, prev>>
  /\ UNCHANGED outerVars

U_Open ==
  /\ pc = "u_open"
  /\ IF openThrows(disk.pbxproj)
     THEN pc' = "failed" /\ UNCHANGED mem
     ELSE pc' = "u_enhance" /\ mem' = [mem EXCEPT !.project = parse(disk.pbxproj)]
  /\ UNCHANGED <<opts, uuids, drawn, disk, prev>>
  /\ UNCHANGED outerVars

U_Enhance ==
  /\ pc = "u_enhance"
  /\ IF enhanceThrows(mem.project)
     THEN pc' = "failed" /\ UNCHANGED mem
     ELSE /\ pc' = "u_writeFinal"
          /\ \E at \in 0..(Len(mem.project.objects[mem.project.objects[mem.project.rootObject].targets[1]].buildPhases) + 1) :
               mem' = [mem EXCEPT !.project =
                         enhanceProject(mem.project, U_relativeOptions(opts), disk.icon, at),
                       !.phasesBefore =
                         phasesBeforeRelocation(mem.project, U_relativeOptions(opts), disk.icon, at)]
  /\ UNCHANGED <<opts, uuids, drawn, disk, prev>>
  /\ UNCHANGED outerVars

\* enhanceProject in its two parts, for the order inside it
U_EnhanceNodes ==
  /\ pc = "u_enhance"
  /\ IF enhanceThrows(mem.project)
     THEN pc' = "failed" /\ UNCHANGED mem
     ELSE /\ pc' = "u_enhanceSettings"
          /\ \E at \in 0..(Len(mem.project.objects[mem.project.objects[mem.project.rootObject].targets[1]].buildPhases) + 1) :
               mem' = [mem EXCEPT !.project =
                         enhanceNodes(mem.project, U_relativeOptions(opts), disk.icon, at),
                       !.phasesBefore =
                         phasesBeforeRelocation(mem.project, U_relativeOptions(opts), disk.icon, at)]
  /\ UNCHANGED <<opts, uuids, drawn, disk, prev>>
  /\ UNCHANGED outerVars

U_EnhanceSettings ==
  /\ pc = "u_enhanceSettings"
  /\ mem' = [mem EXCEPT !.project = enhanceSettings(mem.project, U_relativeOptions(opts))]
  /\ pc' = "u_writeFinal"
  /\ UNCHANGED <<opts, uuids, drawn, disk, prev>>
  /\ UNCHANGED outerVars

U_WriteFinal ==
  /\ pc = "u_writeFinal"
  /\ \/ /\ disk' = [disk EXCEPT !.pbxproj = build(mem.project), !.pbxprojWrites = @ + 1]
        /\ pc' = "done"
     \/ /\ \E left \in FailedWrite(disk.pbxproj) : disk' = [disk EXCEPT !.pbxproj = left]
        /\ pc' = "failed"
  /\ UNCHANGED <<opts, uuids, drawn, mem, prev>>
  /\ UNCHANGED outerVars

\* ---- project/xcode.ts : generateXcodeProject
P_Invoke(repeats) ==
  /\ pc = "idle"
  /\ \E o \in P_Options :
       /\ opts' = o
       /\ \E u \in Draws(P_NeededDraws(o), repeats, drawn) : uuids' = u
       /\ drawn' = drawn + P_NeededDraws(o)
  /\ pc' = "p_ensureDir"
  /\ UNCHANGED <<mem, disk, prev>>
  /\ UNCHANGED outerVars

P_EnsureDir ==
  /\ pc = "p_ensureDir"
  /\ disk' = [disk EXCEPT !.dir = TRUE]
  /\ pc' = "p_requireFramework"
  /\ UNCHANGED <<opts, uuids, drawn, mem, prev>>
  /\ UNCHANGED outerVars

\* the eighteen identifiers, the empty fileRefs and buildFiles, then the
\* test of options.frameworkPath
P_RequireFramework ==
  /\ pc = "p_requireFramework"
  /\ mem' = NoMem
  /\ pc' = IF ~HasPath(opts.frameworkPath) THEN "failed" ELSE "p_buildGraph"
  /\ UNCHANGED <<opts, uuids, drawn, disk, prev>>
  /\ UNCHANGED outerVars

P_BuildGraph ==
  /\ pc = "p_buildGraph"
  /\ mem' = [fileRefs |-> P_fileRefs(opts, uuids),
             buildFiles |-> P_buildFiles(opts, uuids),
             baseBuildSettings |-> P_releaseOverlaid(opts).base,
             project |-> projectJson(opts, uuids),
             phasesBefore |-> <<>>]
  /\ pc' = "p_writeProject"
  /\ UNCHANGED <<opts, uuids, drawn, disk, prev>>
  /\ UNCHANGED outerVars

P_WriteProject ==
  /\ pc = "p_writeProject"
  /\ \/ /\ disk' = [disk EXCEPT !.pbxproj = build(mem.project), !.pbxprojWrites = @ + 1]
        /\ pc' = "p_writeScheme"
     \/ /\ \E left \in FailedWrite(disk.pbxproj) : disk' = [disk EXCEPT !.pbxproj = left]
        /\ pc' = "failed"
  /\ UNCHANGED <<opts, uuids, drawn, mem, prev>>
  /\ UNCHANGED outerVars

P_WriteScheme ==
  /\ pc = "p_writeScheme"
  /\ \/ /\ disk' = [disk EXCEPT !.schemesDir = TRUE,
                                !.scheme = generateScheme(opts.projectName,
                                                          P_Uuids(opts, uuids).targetUUID)]
        /\ pc' = "done"
     \/ /\ \E left \in FailedWrite(disk.scheme) :
             disk' = [disk EXCEPT !.schemesDir = TRUE, !.scheme = left]
        /\ pc' = "failed"
  /\ UNCHANGED <<opts, uuids, drawn, mem, prev>>
  /\ UNCHANGED outerVars

\* the generator is called a second time with the options of the first call
Rerun ==
  /\ pc = "done"
  /\ prev = NoFile
  /\ prev' = disk.pbxproj
  /\ LET n == IF opts.gen = "utils" THEN U_NeededDraws(opts) ELSE P_NeededDraws(opts)
     IN  /\ \E u \in Draws(n, 0, drawn) : uuids' = u
         /\ drawn' = drawn + n
  /\ pc' = IF opts.gen = "utils" THEN "u_ensureDirectory" ELSE "p_ensureDir"
  /\ mem' = NoMem
  /\ disk' = [disk EXCEPT !.pbxprojWrites = 0]
  /\ UNCHANGED opts
  /\ UNCHANGED outerVars

U_Steps ==
  \/ U_EnsureDirectory \/ U_CreateMinimalProject \/ U_WriteInitial \/ U_Open
  \/ U_Enhance \/ U_WriteFinal

P_Steps ==
  \/ P_EnsureDir \/ P_RequireFramework \/ P_BuildGraph \/ P_WriteProject \/ P_WriteScheme

Steps == U_Steps \/ P_Steps

Next == U_Invoke(MaxCollisions) \/ P_Invoke(MaxCollisions) \/ Steps

Spec == Init /\ [][Next]_vars

\* what can lie at the target path before a pass: nothing, or a file that is
\* no project document (malformed text, or one cut short)
MalformedFile == [kind |-> "malformed"]
PriorDocuments == {NoFile, MalformedFile, PartialFile}

\* generateXcodeProject of utils/xcodeProject.ts called where an earlier run or
\* the user has left `prior` as project.pbxproj; prev remembers it
U_InvokeOnPrior ==
  /\ pc = "idle"
  /\ \E o \in U_Options, iconOnDisk \in BOOLEAN, prior \in PriorDocuments :
       /\ iconOnDisk => HasPath(o.iconPath)
       /\ opts' = o
       /\ disk' = [disk EXCEPT !.icon = iconOnDisk, !.dir = (prior # NoFile), !.pbxproj = prior]
       /\ prev' = prior
       /\ \E u \in Draws(U_NeededDraws(o), 0, drawn) : uuids' = u
       /\ drawn' = drawn + U_NeededDraws(o)
  /\ pc' = "u_ensureDirectory"
  /\ UNCHANGED mem
  /\ UNCHANGED outerVars

NextPrior == U_InvokeOnPrior \/ U_Steps

SpecPrior == Init /\ [][NextPrior]_vars

\* one pass of utils/xcodeProject.ts with enhanceProject taken in its two parts
NextStages ==
  \/ U_Invoke(0) \/ U_EnsureDirectory \/ U_CreateMinimalProject \/ U_WriteInitial \/ U_Open
  \/ U_EnhanceNodes \/ U_EnhanceSettings \/ U_WriteFinal

SpecStages == Init /\ [][NextStages]_vars

\* two passes over the same options, the random source never repeating itself
NextRerun == U_Invoke(0) \/ P_Invoke(0) \/ Steps \/ Rerun

SpecRerun == Init /\ [][NextRerun]_vars

\* ---- scaffold.ts : scaffoldApp
\* validatePlatforms: every platform asked for is supported and implemented
SUPPORTED_PLATFORMS == {"macos"}
IMPLEMENTED_PLATFORMS == {"macos"}
validatePlatforms(platforms) ==
  /\ \A i \in DOMAIN platforms : platforms[i] \in SUPPORTED_PLATFORMS
  /\ \A i \in DOMAIN platforms : platforms[i] \in IMPLEMENTED_PLATFORMS

\* a name as its characters; replace(/[^a-z0-9]/g, with)
AppNameChars == <<"m", "y", "-", "a", "p", "p">>
AlphaNumeric == {"a", "m", "p", "y"}
RECURSIVE Sanitized(_, _)
Sanitized(chars, with) ==
  IF chars = <<>> THEN ""
  ELSE (IF Head(chars) \in AlphaNumeric THEN Head(chars) ELSE with) \o Sanitized(Tail(chars), with)
generateBundleId(chars) == "com.obsidian." \o Sanitized(chars, "")
sanitizeExecutableName(chars) == Sanitized(chars, "_")

\* MacOSPlatform.generateFiles: the files of one platform generator, in order
MacOSFiles == <<"main.cpp", "BUILD", "Info.plist", "entitlements.plist">>
RECURSIVE GeneratedFiles(_)
GeneratedFiles(platforms) ==
  IF platforms = <<>> THEN <<>> ELSE MacOSFiles \o GeneratedFiles(Tail(platforms))

\* the .cpp and .c files among the generated ones
SourcesAmong(files) ==
  LET F[i \in 0..Len(files)] ==
        IF i = 0 THEN <<>>
        ELSE IF files[i] \in {"main.cpp"} THEN Append(F[i-1], files[i]) ELSE F[i-1]
  IN  F[Len(files)]

ScaffoldPlatforms ==
  {<<>>, <<"macos">>, <<"macos", "macos">>, <<"ios">>, <<"macos", "linux">>}

\* validation, generator lookup, the MODULE.bazel test, ensureDirectory(appDir)
scaffoldApp_Validate ==
  /\ pc = "idle"
  /\ scaffold.stage = "idle"
  /\ \E platforms \in ScaffoldPlatforms, moduleBazelExists \in BOOLEAN :
       scaffold' = IF ~validatePlatforms(platforms) \/ moduleBazelExists
                   THEN [stage |-> "threw"]
                   ELSE [stage |-> "generateFiles", platforms |-> platforms]
  /\ UNCHANGED <<pc, opts, uuids, drawn, mem, disk, prev, token, initCmd, menu, sim, cache>>

\* detectObsidianPath, the platform generators' files, the shared files
scaffoldApp_GenerateFiles ==
  /\ scaffold.stage = "generateFiles"
  /\ \/ \E detected \in {NoPath, <<"work", "obsidian">>}, iconCopied \in BOOLEAN :
          /\ iconCopied => scaffold.platforms # <<>>
          /\ scaffold' = [stage |-> "xcode", platforms |-> scaffold.platforms,
                          files |-> GeneratedFiles(scaffold.platforms),
                          obsidianPath |-> detected]
          /\ disk' = [disk EXCEPT !.icon = iconCopied]
     \/ /\ scaffold' = [stage |-> "threw"]
        /\ UNCHANGED disk
  /\ UNCHANGED <<pc, opts, uuids, drawn, mem, prev, token, initCmd, menu, sim, cache>>

\* the call of generateXcodeProject inside the try block
scaffoldApp_GenerateXcodeProject(repeats) ==
  /\ scaffold.stage = "xcode"
  /\ LET applePlatforms == scaffold.platforms
         allSourceFiles == SourcesAmong(scaffold.files)
         o == [gen |-> "utils", appName |-> Sanitized(AppNameChars, "-"), appDir |-> U_AppDir,
               bundleId |-> generateBundleId(AppNameChars),
               executableName |-> sanitizeExecutableName(AppNameChars),
               minimumOsVersion |-> "26.0",
               sourceFiles |-> [i \in 1..Len(allSourceFiles) |-> U_AppDir \o <<allSourceFiles[i]>>],
               infoPlistPath |-> U_AppDir \o <<"Info.plist">>,
               entitlementsPath |-> IF "entitlements.plist" \in Range(scaffold.files)
                                    THEN U_AppDir \o <<"entitlements.plist">> ELSE NoPath,
               iconPath |-> IF disk.icon THEN U_AppDir \o <<"Obsidian.icon">> ELSE NoPath,
               obsidianPath |-> scaffold.obsidianPath]
     IN  IF Len(applePlatforms) > 0 /\ "Info.plist" \in Range(scaffold.files)
            /\ Len(allSourceFiles) > 0
         THEN /\ opts' = o
              /\ \E u \in Draws(U_NeededDraws(o), repeats, drawn) : uuids' = u
              /\ drawn' = drawn + U_NeededDraws(o)
              /\ pc' = "u_ensureDirectory"
              /\ scaffold' = [scaffold EXCEPT !.stage = "generating"]
         ELSE /\ scaffold' = [scaffold EXCEPT !.stage = "return"]
              /\ UNCHANGED <<pc, opts, uuids, drawn>>
  /\ UNCHANGED <<mem, disk, prev, token, initCmd, menu, sim, cache>>

\* the catch block (a warning, nothing rethrown) and the return statement
scaffoldApp_Return ==
  /\ \/ scaffold.stage = "generating" /\ pc \in {"done", "failed"}
     \/ scaffold.stage = "return"
  /\ scaffold' = [stage |-> "returned", platforms |-> scaffold.platforms,
                  files |-> scaffold.files, obsidianPath |-> scaffold.obsidianPath,
                  warned |-> (pc = "failed"), success |-> TRUE]
  /\ UNCHANGED <<pc, opts, uuids, drawn, mem, disk, prev, token, initCmd, menu, sim, cache>>

NextScaffold ==
  \/ scaffoldApp_Validate \/ scaffoldApp_GenerateFiles
  \/ scaffoldApp_GenerateXcodeProject(MaxCollisions) \/ U_Steps \/ scaffoldApp_Return

SpecScaffold == Init /\ [][NextScaffold]_vars

\* ---- generateUUID (createMinimalProject, generateXcodeProject)
\* Texts are sequences of characters here.  A value of Math.random() is given
\* by the hexadecimal digits of its fraction, the last one not zero (none for 0).
MaxHexDigits == 9
MaxUuids == 2
HexSample == {"8", "a"}
RandomValues == {[i \in 1..len |-> d] : len \in 0..MaxHexDigits, d \in HexSample}

\* Number.prototype.toString(16) of a value in [0, 1)
toString16(digits) == IF digits = <<>> THEN <<"0">> ELSE <<"0", ".">> \o digits

\* String.prototype.substring(from, to), 0 <= from <= to
substring(text, from, to) ==
  SubSeq(text, from + 1, IF to < Len(text) THEN to ELSE Len(text))

toUpperCase(text) ==
  [i \in 1..Len(text) |->
     CASE text[i] = "a" -> "A" [] text[i] = "b" -> "B" [] text[i] = "c" -> "C"
       [] text[i] = "d" -> "D" [] text[i] = "e" -> "E" [] text[i] = "f" -> "F"
       [] OTHER -> text[i]]

\* Math.random().toString(16).substring(2, 10)
RandomPart(digits) == substring(toString16(digits), 2, 10)

\* the first half of generateUUID's concatenation
generateUUID_First ==
  /\ ~token.half
  /\ token.count < MaxUuids
  /\ \E r \in RandomValues : token' = [token EXCEPT !.first = RandomPart(r), !.half = TRUE]
  /\ UNCHANGED <<genVars, scaffold, initCmd, menu, sim, cache>>

\* the second half, toUpperCase (and slice(0, 24) in project/xcode.ts), return
generateUUID_Second ==
  /\ token.half
  /\ \E r \in RandomValues :
       LET uuid == substring(toUpperCase(token.first \o RandomPart(r)), 0, 24)
       IN  token' = [first |-> <<>>, half |-> FALSE, uuid |-> uuid,
                     lengths |-> token.lengths \cup {Len(uuid)}, count |-> token.count + 1]
  /\ UNCHANGED <<genVars, scaffold, initCmd, menu, sim, cache>>

NextUuid == generateUUID_First \/ generateUUID_Second

SpecUuid == Init /\ [][NextUuid]_vars

\* ---- commands/init.ts : the action of `obsydian init`
\* --platform: absent (the multi-select prompt is shown) or any text; the option
\* is cast to Platform, never checked
InitPlatformOptions == {"", "macos", "ios", "linux"}
\* what the multi-select prompt can return: at least one of its two choices
InitPromptedPlatforms == {<<"macos">>, <<"ios">>, <<"macos", "ios">>}

InitIsApple(platforms) == "macos" \in Range(platforms) \/ "ios" \in Range(platforms)

\* getXcodeVersion: no Xcode, process.exit(1)
init_Prerequisites ==
  /\ initCmd.stage = "idle"
  /\ \E xcodeVersion \in BOOLEAN :
       initCmd' = [initCmd EXCEPT !.stage = IF xcodeVersion THEN "platforms" ELSE "exited"]
  /\ UNCHANGED <<genVars, scaffold, token, menu, sim, cache>>

\* name, platforms, bundle id, projectDir; exit when the directory exists;
\* otherwise ensureDir(projectDir)
init_Platforms ==
  /\ initCmd.stage = "platforms"
  /\ \E option \in InitPlatformOptions, prompted \in InitPromptedPlatforms, exists \in BOOLEAN :
       LET platforms == IF option # "" THEN <<option>> ELSE prompted
       IN  /\ initCmd' = [initCmd EXCEPT !.stage = IF exists THEN "exited" ELSE "framework",
                                         !.platforms = platforms]
           /\ disk' = [disk EXCEPT !.dir = TRUE]
  /\ UNCHANGED <<pc, opts, uuids, drawn, mem, prev, scaffold, token, menu, sim, cache>>

\* the prompt 'Use Obsydian framework?', the download, obsydian.json
init_Framework ==
  /\ initCmd.stage = "framework"
  /\ \E useFramework \in BOOLEAN, downloaded \in BOOLEAN, written \in BOOLEAN :
       LET got == useFramework /\ downloaded
       IN  initCmd' =
             IF written
             THEN [initCmd EXCEPT
                     !.stage = "files",
                     !.frameworkPath = IF got THEN P_ProjectDir \o <<"Frameworks", "Obsydian.xcframework">>
                                       ELSE NoPath,
                     !.configFramework = got,
                     !.downloadFailed = useFramework /\ ~downloaded,
                     !.files = {"obsydian.json"}]
             ELSE [initCmd EXCEPT !.stage = "failed"]
  /\ UNCHANGED <<genVars, scaffold, token, menu, sim, cache>>

\* main.m from one of the two templates, Info.plist, entitlements.plist and
\* the placeholder icon (its failure is only warned about)
init_WriteFiles ==
  /\ initCmd.stage = "files"
  /\ \E written \in BOOLEAN, icon \in BOOLEAN :
       LET pl == Range(initCmd.platforms)
       IN  initCmd' =
             IF written
             THEN [initCmd EXCEPT
                     !.stage = "xcode",
                     !.mainSource = IF HasPath(initCmd.frameworkPath)
                                    THEN "generateMainWithFramework" ELSE "generateMainCpp",
                     !.files = @ \cup {"main.m"}
                               \cup (IF InitIsApple(initCmd.platforms) THEN {"Info.plist"} ELSE {})
                               \cup (IF "macos" \in pl THEN {"entitlements.plist"} ELSE {})
                               \cup (IF "macos" \in pl /\ icon THEN {"AppIcon"} ELSE {})]
             ELSE [initCmd EXCEPT !.stage = "failed"]
  /\ UNCHANGED <<genVars, scaffold, token, menu, sim, cache>>

\* the call of generateXcodeProject, made for macos and ios only
init_GenerateXcodeProject(repeats) ==
  /\ initCmd.stage = "xcode"
  /\ LET o == [gen |-> "project", projectDir |-> P_ProjectDir, projectName |-> "MyApp",
               bundleId |-> "com.obsydian.myapp", platforms |-> initCmd.platforms,
               sourceFiles |-> <<"main.m">>, infoPlistPath |-> "Info.plist",
               entitlementsPath |-> IF "macos" \in Range(initCmd.platforms)
                                    THEN <<"entitlements.plist">> ELSE NoPath,
               minimumOsVersion |-> "14.0", teamId |-> "",
               frameworkPath |-> initCmd.frameworkPath]
     IN  IF InitIsApple(initCmd.platforms)
         THEN /\ opts' = o
              /\ \E u \in Draws(P_NeededDraws(o), repeats, drawn) : uuids' = u
              /\ drawn' = drawn + P_NeededDraws(o)
              /\ pc' = "p_ensureDir"
              /\ initCmd' = [initCmd EXCEPT !.stage = "generating"]
         ELSE /\ initCmd' = [initCmd EXCEPT !.stage = "gitignore"]
              /\ UNCHANGED <<pc, opts, uuids, drawn>>
  /\ UNCHANGED <<mem, disk, prev, scaffold, token, menu, sim, cache>>

\* .gitignore and 'Project created!'; any error thrown since ensureDir is
\* reported and thrown again
init_Finish ==
  /\ \/ initCmd.stage = "generating" /\ pc \in {"done", "failed"}
     \/ initCmd.stage = "gitignore"
  /\ \E written \in BOOLEAN :
       initCmd' =
         IF initCmd.stage = "generating" /\ pc = "failed" THEN [initCmd EXCEPT !.stage = "failed"]
         ELSE IF written THEN [initCmd EXCEPT !.stage = "succeeded", !.files = @ \cup {".gitignore"}]
         ELSE [initCmd EXCEPT !.stage = "failed"]
  /\ UNCHANGED <<genVars, scaffold, token, menu, sim, cache>>

NextInit ==
  \/ init_Prerequisites \/ init_Platforms \/ init_Framework \/ init_WriteFiles
  \/ init_GenerateXcodeProject(MaxCollisions) \/ P_Steps \/ init_Finish

SpecInit == Init /\ [][NextInit]_vars

\* ---- commands/menu.ts : runInteractiveMenuAsync
\* menu.shown is the page whose prompt is on the screen; menu.launched is the
\* page a subcommand that has just run to completion was launched from and
\* menu.fellBack tells that the loop has since left a page for want of a project;
\* menu.escAt ("page" or "confirm") and menu.escPage tell which prompt Esc has
\* just cancelled (all forgotten with the next answer to a page's prompt).
PageTo(p) == [type |-> "page", page |-> p, argv |-> <<>>]
RunOf(argv) == [type |-> "run", page |-> "", argv |-> argv]
FlowAction == [type |-> "flow", page |-> "", argv |-> <<>>]
ExitAction == [type |-> "exit", page |-> "", argv |-> <<>>]

\* the exit code of Ctrl+C: constants.signals.SIGINT + 128
SigintExitCode == 130
ExitCodes == {0, 1}

\* the choices of a page's prompt
MenuChoices(page, inProject) ==
  CASE page = "main" ->
         {PageTo("project"), PageTo("tools"), PageTo("help"), ExitAction}
         \cup (IF inProject THEN {PageTo("buildRun"), PageTo("release")} ELSE {})
    [] page = "project" -> {RunOf(<<"init">>), PageTo("main")}
    [] page = "buildRun" ->
         {RunOf(<<"build">>), RunOf(<<"run">>), FlowAction, PageTo("main")}
    [] page = "release" -> {RunOf(<<"credentials", "setup">>), RunOf(<<"submit">>), PageTo("main")}
    [] page = "tools" ->
         {RunOf(<<"ios", "simulators">>), RunOf(<<"xcode", "run">>), PageTo("main")}
         \cup (IF inProject THEN {RunOf(<<"framework", "version">>)} ELSE {})
    [] page = "help" -> {RunOf(<<"--help">>), PageTo("main")}
    [] OTHER -> {PageTo("main")}

exitWithSigint ==
  [menu EXCEPT !.stage = "exited", !.code = SigintExitCode, !.shown = "", !.escAt = "",
               !.escPage = ""]

\* a variant in which a cancelled prompt leaves the menu
OrMain_Exit(answer) == IF answer = NoAction THEN ExitAction ELSE answer

\* (await selectAsync(...)) ?? { type: 'page', page: 'main' }; selectAsync
\* returns null (NoAction here) when the prompt was cancelled with Esc
OrMain(answer) == IF answer = NoAction THEN PageTo("main") ELSE answer

\* the TTY test, the SIGINT handler, page = 'main'
menu_Start ==
  /\ menu.stage = "idle"
  /\ \E isInteractiveTty \in BOOLEAN :
       menu' = IF isInteractiveTty THEN [menu EXCEPT !.stage = "loop", !.page = "main"]
               ELSE [menu EXCEPT !.stage = "refused", !.code = 1]
  /\ UNCHANGED <<genVars, scaffold, token, initCmd, sim, cache>>

\* the top of the loop: findProjectRoot, the header, the switch on the page
\* up to the prompt being shown
menu_Render ==
  /\ menu.stage = "loop"
  /\ \E inProject \in BOOLEAN :
       menu' = IF menu.page \in {"buildRun", "release"} /\ ~inProject
               THEN [menu EXCEPT !.inProject = inProject, !.page = "main",
                                 !.fellBack = TRUE]
               ELSE [menu EXCEPT !.inProject = inProject, !.stage = "prompt",
                                 !.shown = menu.page]
  /\ UNCHANGED <<genVars, scaffold, token, initCmd, sim, cache>>

Prompting == menu.stage = "prompt"

\* the answer to the page's prompt and the dispatch on action.type
menu_Select ==
  /\ Prompting
  /\ \/ \E answer \in MenuChoices(menu.page, menu.inProject) \cup {NoAction} :
          LET action == OrMain(answer)
              m == [menu EXCEPT !.action = action, !.shown = "", !.launched = "",
                                !.fellBack = FALSE,
                                !.escAt = IF answer = NoAction THEN "page" ELSE "",
                                !.escPage = IF answer = NoAction THEN menu.page ELSE ""]
          IN  menu' =
                CASE action.type = "exit" -> [m EXCEPT !.stage = "ended"]
                  [] action.type = "page" -> [m EXCEPT !.stage = "loop", !.page = action.page]
                  [] action.type = "flow" -> [m EXCEPT !.stage = "flow", !.returnPage = menu.page]
                  [] OTHER -> [m EXCEPT !.stage = "confirm", !.returnPage = menu.page]
     \/ menu' = exitWithSigint
  /\ UNCHANGED <<genVars, scaffold, token, initCmd, sim, cache>>

\* runRunOnPhysicalIosDeviceFlowAsync: the command line, null when the user
\* backs out or nothing can be run, an exception of readConfig, or Ctrl+C
menu_Flow ==
  /\ menu.stage = "flow"
  /\ \/ menu' = [menu EXCEPT !.stage = "confirm",
                             !.action = [@ EXCEPT !.argv = <<"xcode", "run">>]]
     \/ menu' = [menu EXCEPT !.stage = "loop"]
     \/ menu' = [menu EXCEPT !.stage = "threw"]
     \/ menu' = exitWithSigint
  /\ UNCHANGED <<genVars, scaffold, token, initCmd, sim, cache>>

\* confirmRunAsync
menu_Confirm ==
  /\ menu.stage = "confirm"
  /\ \/ \E choice \in {"run", "back", "esc"} :
          menu' = [menu EXCEPT !.stage = IF choice = "run" THEN "running" ELSE "loop",
                               !.escAt = IF choice = "esc" THEN "confirm" ELSE "",
                               !.escPage = IF choice = "esc" THEN menu.returnPage ELSE ""]
     \/ menu' = exitWithSigint
  /\ UNCHANGED <<genVars, scaffold, token, initCmd, sim, cache>>

\* runSelfAsync: the child's exit code, or the rejection on a spawn error
menu_RunSelf ==
  /\ menu.stage = "running"
  /\ \/ \E code \in ExitCodes : menu' = [menu EXCEPT !.stage = "pressKey", !.code = code]
     \/ menu' = [menu EXCEPT !.stage = "threw"]
  /\ UNCHANGED <<genVars, scaffold, token, initCmd, sim, cache>>

\* a variant that goes back to the main page after every subcommand
menu_PressAnyKey_ToMain ==
  /\ menu.stage = "pressKey"
  /\ \/ menu' = [menu EXCEPT !.stage = "loop", !.page = "main", !.launched = menu.returnPage]
     \/ menu' = exitWithSigint
  /\ UNCHANGED <<genVars, scaffold, token, initCmd, sim, cache>>

\* the warning for a non-zero code, pressAnyKeyToContinueAsync, page = returnPage
menu_PressAnyKey ==
  /\ menu.stage = "pressKey"
  /\ \/ menu' = [menu EXCEPT !.stage = "loop", !.page = menu.returnPage,
                             !.launched = menu.returnPage]
     \/ menu' = exitWithSigint
  /\ UNCHANGED <<genVars, scaffold, token, initCmd, sim, cache>>

NextMenu ==
  \/ menu_Start \/ menu_Render \/ menu_Select \/ menu_Flow \/ menu_Confirm
  \/ menu_RunSelf \/ menu_PressAnyKey

SpecMenu == Init /\ [][NextMenu]_vars

\* ---- run/xcode/runXcodeAsync.ts : install and launch on an iOS Simulator
\* One simctl call (or one helper made of several) and how it ended.
Called(op, ok) == [op |-> op, ok |-> ok]

\* process.exit(1)
simExit(r) == [r EXCEPT !.stage = "exit", !.code = 1]

\* A throw inside the try block of install and launch: the first attempt's
\* catch starts the restart, the retry's catch ends the process.
simCatch(r) == IF r.attempt = 1 THEN [r EXCEPT !.stage = "shutdown"] ELSE simExit(r)

\* The built app exists and the target is a simulator: the branch is entered.
sim_Enter ==
  /\ sim.stage = "idle"
  /\ \E open \in BOOLEAN :
       sim' = [sim EXCEPT !.stage = "boot", !.attempt = 1, !.shouldOpenSimulator = open]
  /\ UNCHANGED <<genVars, scaffold, token, initCmd, menu, cache>>

\* bootDeviceAsync then bootStatusAsync; a throw is only warned about
sim_Boot ==
  /\ sim.stage = "boot"
  /\ \E ok \in BOOLEAN :
       sim' = [sim EXCEPT !.stage = "open", !.log = Append(@, Called("boot", ok))]
  /\ UNCHANGED <<genVars, scaffold, token, initCmd, menu, cache>>

\* openSimulatorAppAsync when asked for; exec rejects when `open` cannot be
\* spawned. Before the try block the rejection leaves runXcodeAsync, inside
\* the retry it is the retry's failure.
sim_OpenSimulator ==
  /\ sim.stage = "open"
  /\ IF sim.shouldOpenSimulator
       THEN \E ok \in BOOLEAN :
              LET r == [sim EXCEPT !.log = Append(@, Called("open", ok))]
              IN sim' = IF ok THEN [r EXCEPT !.stage = "terminate"]
                        ELSE IF r.attempt = 1 THEN [r EXCEPT !.stage = "threw"]
                        ELSE simExit(r)
       ELSE sim' = [sim EXCEPT !.stage = "terminate"]
  /\ UNCHANGED <<genVars, scaffold, token, initCmd, menu, cache>>

\* terminateAppAsync: a throw of simctl is swallowed
sim_Terminate ==
  /\ sim.stage = "terminate"
  /\ \E ok \in BOOLEAN :
       sim' = [sim EXCEPT !.stage = "uninstall", !.log = Append(@, Called("terminate", ok))]
  /\ UNCHANGED <<genVars, scaffold, token, initCmd, menu, cache>>

\* uninstallAppAsync: a throw of simctl is swallowed
sim_Uninstall ==
  /\ sim.stage = "uninstall"
  /\ \E ok \in BOOLEAN :
       sim' = [sim EXCEPT !.stage = "install", !.log = Append(@, Called("uninstall", ok))]
  /\ UNCHANGED <<genVars, scaffold, token, initCmd, menu, cache>>

\* installAppAsync
sim_Install ==
  /\ sim.stage = "install"
  /\ \E ok \in BOOLEAN :
       LET r == [sim EXCEPT !.log = Append(@, Called("install", ok))]
       IN sim' = IF ok THEN [r EXCEPT !.stage = "launch"] ELSE simCatch(r)
  /\ UNCHANGED <<genVars, scaffold, token, initCmd, menu, cache>>

\* launchAppAsync, then the spinner succeeds and runXcodeAsync returns
sim_Launch ==
  /\ sim.stage = "launch"
  /\ \E ok \in BOOLEAN :
       LET r == [sim EXCEPT !.log = Append(@, Called("launch", ok))]
       IN sim' = IF ok THEN [r EXCEPT !.stage = "done"] ELSE simCatch(r)
  /\ UNCHANGED <<genVars, scaffold, token, initCmd, menu, cache>>

\* the first attempt's catch: shutdownAsync, its throw ignored
sim_Shutdown ==
  /\ sim.stage = "shutdown"
  /\ \E ok \in BOOLEAN :
       sim' = [sim EXCEPT !.stage = "reboot", !.attempt = 2,
                          !.log = Append(@, Called("shutdown", ok))]
  /\ UNCHANGED <<genVars, scaffold, token, initCmd, menu, cache>>

\* the retry skipping the boot; the retry boots before anything else
sim_Reboot_Skipped ==
  /\ sim.stage = "reboot"
  /\ sim' = [sim EXCEPT !.stage = "open"]
  /\ UNCHANGED <<genVars, scaffold, token, initCmd, menu, cache>>

\* the retry's bootDeviceAsync then bootStatusAsync: a throw is the retry's failure
sim_Reboot ==
  /\ sim.stage = "reboot"
  /\ \E ok \in BOOLEAN :
       LET r == [sim EXCEPT !.log = Append(@, Called("boot", ok))]
       IN sim' = IF ok THEN [r EXCEPT !.stage = "open"] ELSE simExit(r)
  /\ UNCHANGED <<genVars, scaffold, token, initCmd, menu, cache>>

NextSim ==
  \/ sim_Enter \/ sim_Boot \/ sim_OpenSimulator \/ sim_Terminate \/ sim_Uninstall
  \/ sim_Install \/ sim_Launch \/ sim_Shutdown \/ sim_Reboot

SpecSim == Init /\ [][NextSim]_vars

\* ---- utils/framework-downloader.ts : downloadFrameworkWithCache
fw_Call ==
  /\ cache.stage \in {"idle", "returned", "threw"}
  /\ cache.calls < MaxDownloads
  /\ \E version \in FrameworkVersions :
       cache' = [cache EXCEPT !.stage = "getCachedFrameworkPath", !.version = version,
                              !.calls = @ + 1, !.zip = "none"]
  /\ UNCHANGED <<genVars, scaffold, token, initCmd, menu, sim>>

\* getCachedFrameworkPath: pathExists of the cached Obsydian.xcframework
fw_GetCachedFrameworkPath ==
  /\ cache.stage = "getCachedFrameworkPath"
  /\ cache' = [cache EXCEPT !.stage = IF cache.frameworks[cache.version] # "none"
                                       THEN "copy" ELSE "getFrameworkManifest"]
  /\ UNCHANGED <<genVars, scaffold, token, initCmd, menu, sim>>

\* downloadFramework: getFrameworkManifest, then ensureDir
fw_GetFrameworkManifest ==
  /\ cache.stage = "getFrameworkManifest"
  /\ \E ok \in BOOLEAN :
       cache' = [cache EXCEPT !.stage = IF ok THEN "downloadFile" ELSE "threw"]
  /\ UNCHANGED <<genVars, scaffold, token, initCmd, menu, sim>>

\* downloadFile: the zip arrives whole ("good"), arrives with other bytes than
\* the manifest's checksum stands for ("bad"), or the download fails
fw_DownloadFile ==
  /\ cache.stage = "downloadFile"
  /\ \/ \E zip \in {"good", "bad"} : cache' = [cache EXCEPT !.stage = "verifyChecksum", !.zip = zip]
     \/ \E left \in {"none", "bad"} : cache' = [cache EXCEPT !.stage = "threw", !.zip = left]
  /\ UNCHANGED <<genVars, scaffold, token, initCmd, menu, sim>>

\* verifyChecksum; a mismatch removes the zip and throws
fw_VerifyChecksum ==
  /\ cache.stage = "verifyChecksum"
  /\ cache' = IF cache.zip = "good" THEN [cache EXCEPT !.stage = "unzip"]
              ELSE [cache EXCEPT !.stage = "threw", !.zip = "none"]
  /\ UNCHANGED <<genVars, scaffold, token, initCmd, menu, sim>>

\* unzip -o into the cache directory, then the zip is removed. The archive
\* holds a framework validateFramework accepts, one it does not, or none;
\* a failing unzip leaves nothing or a part of the framework.
fw_Unzip ==
  /\ cache.stage = "unzip"
  /\ \/ \E content \in {"valid", "invalid", "none"} :
          cache' = [cache EXCEPT !.stage = "pathExists", !.zip = "none",
                                 !.frameworks[cache.version] = content]
     \/ \E left \in {"none", "invalid"} :
          cache' = [cache EXCEPT !.stage = "threw", !.zip = "none",
                                 !.frameworks[cache.version] = left]
  /\ UNCHANGED <<genVars, scaffold, token, initCmd, menu, sim>>

\* pathExists(frameworkPath) after the extraction
fw_PathExists ==
  /\ cache.stage = "pathExists"
  /\ cache' = [cache EXCEPT !.stage = IF cache.frameworks[cache.version] = "none"
                                       THEN "threw" ELSE "validateFramework"]
  /\ UNCHANGED <<genVars, scaffold, token, initCmd, menu, sim>>

\* validateFramework: throws on a framework without Info.plist or slices
fw_ValidateFramework ==
  /\ cache.stage = "validateFramework"
  /\ cache' = [cache EXCEPT !.stage = IF cache.frameworks[cache.version] = "valid"
                                       THEN "copy" ELSE "threw"]
  /\ UNCHANGED <<genVars, scaffold, token, initCmd, menu, sim>>

\* fs.copy of the cached framework into <projectDir>/Frameworks
fw_Copy ==
  /\ cache.stage = "copy"
  /\ \/ cache' = [cache EXCEPT !.stage = "returned",
                                !.copied = @ \cup {[call |-> cache.calls, version |-> cache.version,
                                                    framework |-> cache.frameworks[cache.version]]}]
     \/ cache' = [cache EXCEPT !.stage = "threw"]
  /\ UNCHANGED <<genVars, scaffold, token, initCmd, menu, sim>>

NextCache ==
  \/ fw_Call \/ fw_GetCachedFrameworkPath \/ fw_GetFrameworkManifest \/ fw_DownloadFile
  \/ fw_VerifyChecksum \/ fw_Unzip \/ fw_PathExists \/ fw_ValidateFramework \/ fw_Copy

SpecCache == Init /\ [][NextCache]_vars

\* ================================================================ properties
\* project.pbxproj holds a whole document
Written == disk.pbxproj.kind = "pbxproj"
WrittenDoc == parse(disk.pbxproj)

SingleRefFields == {"mainGroup", "productRefGroup", "buildConfigurationList", "fileRef",
                    "productReference"}
ListRefFields == {"targets", "buildConfigurations", "buildPhases", "files", "children"}

\* the identifiers a node uses as references
RefsOf(node) ==
  {node[f] : f \in SingleRefFields \cap DOMAIN node}
  \cup UNION {Range(node[f]) : f \in ListRefFields \cap DOMAIN node}

NoDanglingReference(doc) ==
  /\ doc.rootObject \in DOMAIN doc.objects
  /\ \A id \in DOMAIN doc.objects : RefsOf(doc.objects[id]) \subseteq DOMAIN doc.objects

\* the first target of the document's project node, NoId if there is none
MainTarget(doc) ==
  LET objs == doc.objects
  IN  IF Isa(objs, doc.rootObject) = "PBXProject"
      THEN LET ts == objs[doc.rootObject].targets
           IN  IF Len(ts) > 0 /\ Isa(objs, ts[1]) = "PBXNativeTarget" THEN ts[1] ELSE NoId
      ELSE NoId

BuildPhasesOf(doc) ==
  IF MainTarget(doc) = NoId THEN <<>> ELSE doc.objects[MainTarget(doc)].buildPhases

PhaseIndexes(doc, isa) ==
  {i \in DOMAIN BuildPhasesOf(doc) : Isa(doc.objects, BuildPhasesOf(doc)[i]) = isa}

NamedPhaseIndexes(doc, isa, name) ==
  {i \in PhaseIndexes(doc, isa) :
     LET node == doc.objects[BuildPhasesOf(doc)[i]]
     IN  "name" \in DOMAIN node /\ node.name = name}

\* the build configurations of the main target
TargetConfigs(doc) ==
  LET objs == doc.objects
      t == MainTarget(doc)
  IN  IF t # NoId /\ Isa(objs, objs[t].buildConfigurationList) = "XCConfigurationList"
      THEN objs[objs[t].buildConfigurationList].buildConfigurations
      ELSE <<>>

\* C1: whatever the inputs, every identifier a node of the written document
\* uses as a reference (rootObject, mainGroup, productRefGroup, targets,
\* buildConfigurationList, buildConfigurations, buildPhases, files, fileRef,
\* children, productReference) is a key of the document's objects table, in
\* the document of the initial build and in the one written after enhanceProject.
C1_EveryReferenceIsAKey == Written => NoDanglingReference(WrittenDoc)

\* C1 witness: the enhanced document of a pass with sources, entitlements,
\* icon and library, holding nodes made by the generator and by the library
C1_Witness ==
  /\ pc = "done" /\ opts.gen = "utils" /\ Written
  /\ Len(opts.sourceFiles) = MaxSources
  /\ HasPath(opts.entitlementsPath) /\ disk.icon /\ HasPath(opts.obsidianPath)
  /\ \E id \in DOMAIN WrittenDoc.objects : id > LibBase
  /\ \E id \in DOMAIN WrittenDoc.objects : id < LibBase

PreLinkBeforeFrameworks(doc) ==
  LET script == NamedPhaseIndexes(doc, "PBXShellScriptBuildPhase", "Build Obsidian Library")
      frameworks == PhaseIndexes(doc, "PBXFrameworksBuildPhase")
  IN  /\ script # {}
      /\ frameworks # {}
      /\ \A i \in script, j \in frameworks : i < j

C3_EmbedPhaseOnlyOnIOS ==
  (opts.gen = "project" /\ Written) =>
    LET doc == WrittenDoc
        embed == NamedPhaseIndexes(doc, "PBXCopyFilesBuildPhase", "Embed Frameworks")
        frameworks == PhaseIndexes(doc, "PBXFrameworksBuildPhase")
    IN  IF "ios" \in Range(opts.platforms)
        THEN /\ Cardinality(embed) = 1
             /\ frameworks # {}
             /\ \A i \in embed, j \in frameworks : i > j
        ELSE /\ embed = {}
             /\ \A id \in DOMAIN doc.objects : doc.objects[id].isa # "PBXCopyFilesBuildPhase"

\* C4: no two nodes of one generated graph share an identifier: each node the
\* pass created is in the objects table under an identifier of its own, none
\* overwritten by a later node.
C4_NoSharedIdentifier ==
  /\ pc = "u_writeInitial" => Cardinality(DOMAIN mem.project.objects) = U_NeededDraws(opts)
  /\ pc = "p_writeProject" => Cardinality(DOMAIN mem.project.objects) = P_NeededDraws(opts)

\* C5: project/xcode.ts called without frameworkPath fails before any node
\* record is in fileRefs, buildFiles or objects, before any build-settings
\* map is composed, and before anything is created or written on disk.
C5_FailsBeforeAnything ==
  (opts.gen = "project" /\ pc = "failed" /\ ~HasPath(opts.frameworkPath)) =>
    /\ mem.fileRefs = EmptyMap /\ mem.buildFiles = EmptyMap
    /\ mem.project = NoProject
    /\ mem.baseBuildSettings = EmptyMap
    /\ disk = NoDisk

\* C6: when generateXcodeProject of utils/xcodeProject.ts fails after it has
\* started, no project.pbxproj written by that pass is left on disk.
C6_FailedPassLeavesNoDocument ==
  (opts.gen = "utils" /\ pc = "failed") => disk.pbxproj = NoFile

HasEntry(settings, key, entry) ==
  key \in DOMAIN settings /\ entry \in Range(settings[key])

\* C7: with an external library requested, every build configuration of the
\* target, Debug and Release, ends with a search-path setting listing the
\* library's directory and a linker-flags setting naming the library.
C7_LibrarySettingsInEveryConfig ==
  (pc = "done" /\ Written) =>
    LET doc == WrittenDoc
        configs == TargetConfigs(doc)
        Settings(c) == doc.objects[c].buildSettings
    IN  /\ (opts.gen = "utils" /\ HasPath(opts.obsidianPath)) =>
             /\ Len(configs) = 2
             /\ \A i \in DOMAIN configs :
                  /\ HasEntry(Settings(configs[i]), "LIBRARY_SEARCH_PATHS",
                              "\"$(SRCROOT)/../obsidian/bazel-bin\"/src")
                  /\ HasEntry(Settings(configs[i]), "OTHER_LDFLAGS", "-lobsidian_impl")
        /\ opts.gen = "project" =>
             /\ Len(configs) = 2
             /\ \A i \in DOMAIN configs :
                  /\ HasEntry(Settings(configs[i]), "FRAMEWORK_SEARCH_PATHS", "\"Frameworks\"")
                  /\ HasEntry(Settings(configs[i]), "OTHER_LDFLAGS", "Obsydian")

\* C8: two runs of the generator on the same inputs leave textually identical
\* project documents.
C8_SameInputsSameDocument ==
  (pc = "done" /\ prev # NoFile) => disk.pbxproj = prev

\* C9: on the desktop platform the Sources phase's files holds exactly one
\* build file per source file, in input order, the i-th resolving through
\* fileRef to a file reference whose path is the i-th file as the graph
\* builder was given it.
C9_SourcesPhaseListsTheSources ==
  (Written /\ (opts.gen = "utils" \/ ~isIOS(opts))) =>
    LET doc == WrittenDoc
        objs == doc.objects
        given == IF opts.gen = "utils" THEN U_relativeOptions(opts).sourceFiles
                 ELSE opts.sourceFiles
        sources == PhaseIndexes(doc, "PBXSourcesBuildPhase")
    IN  /\ Cardinality(sources) = 1
        /\ \A s \in sources :
             LET files == objs[BuildPhasesOf(doc)[s]].files
             IN  /\ Len(files) = Len(given)
                 /\ \A i \in DOMAIN files :
                      /\ Isa(objs, files[i]) = "PBXBuildFile"
                      /\ Isa(objs, objs[files[i]].fileRef) = "PBXFileReference"
                      /\ objs[objs[files[i]].fileRef].path = given[i]

\* C10: in every written document each reference resolves to a node of the
\* kind its field requires: fileRef to a PBXFileReference, buildPhases to
\* build phases, buildConfigurationList to an XCConfigurationList,
\* buildConfigurations to XCBuildConfiguration nodes, children to groups or
\* file references, productReference to a PBXFileReference, rootObject to
\* the PBXProject.
C10_ReferencesResolveToTheirKind == Written => WellKinded(WrittenDoc)

\* C11: a failure of project-document generation is not recovered silently:
\* when generateXcodeProject throws inside scaffoldApp, scaffoldApp does not
\* complete with success: true.
C11_GeneratorFailureAbortsScaffold ==
  (scaffold.stage = "returned" /\ pc = "failed") => ~scaffold.success

\* the names of the configurations a configuration list holds, in order
\* ("" for an entry that is no build configuration)
ConfigNames(doc, list) ==
  LET cs == doc.objects[list].buildConfigurations
  IN  [i \in DOMAIN cs |->
         IF Isa(doc.objects, cs[i]) = "XCBuildConfiguration" THEN doc.objects[cs[i]].name ELSE ""]

\* C13: every XCConfigurationList of a written document, of the project and
\* of the target, before and after enhanceProject, lists at least one build
\* configuration, the names of its configurations are pairwise distinct, and
\* its defaultConfigurationName is the name of exactly one of them.
C13_ConfigurationListsWellFormed ==
  Written =>
    \A list \in DOMAIN WrittenDoc.objects :
      WrittenDoc.objects[list].isa = "XCConfigurationList" =>
        LET names == ConfigNames(WrittenDoc, list)
        IN  /\ Len(names) >= 1
            /\ \A i, j \in DOMAIN names : i # j => names[i] # names[j]
            /\ Cardinality({i \in DOMAIN names :
                              names[i] = WrittenDoc.objects[list].defaultConfigurationName}) = 1

\* C14: after any build pass and any enhance pass (script phase or not, icon
\* or not) the target's buildPhases holds at most one Sources phase, at most
\* one Frameworks phase, at most one Resources phase, and no phase
\* identifier twice.
C14_NoDuplicatePhase ==
  Written =>
    LET phases == BuildPhasesOf(WrittenDoc)
    IN  /\ \A isa \in {"PBXSourcesBuildPhase", "PBXFrameworksBuildPhase",
                       "PBXResourcesBuildPhase"} :
             Cardinality(PhaseIndexes(WrittenDoc, isa)) <= 1
        /\ \A i, j \in DOMAIN phases : i # j => phases[i] # phases[j]

\* C15: every pass that writes a project document also writes a scheme
\* document in which each BuildableReference has as BlueprintIdentifier the
\* identifier of the target node of that project document and as
\* BuildableName the path of the target's product reference.
C15_SchemeNamesTheTarget ==
  (pc = "done" /\ Written) =>
    LET doc == WrittenDoc
        target == MainTarget(doc)
    IN  /\ disk.scheme.kind = "xcscheme"
        /\ target # NoId
        /\ Isa(doc.objects, doc.objects[target].productReference) = "PBXFileReference"
        /\ \A i \in DOMAIN disk.scheme.buildableReferences :
             /\ disk.scheme.buildableReferences[i].BlueprintIdentifier = target
             /\ disk.scheme.buildableReferences[i].BuildableName
                  = doc.objects[doc.objects[target].productReference].path

MobileOnlyKeys == {"TARGETED_DEVICE_FAMILY", "INFOPLIST_KEY_UISupportedInterfaceOrientations",
                   "INFOPLIST_KEY_UISupportedInterfaceOrientations_iPad"}

\* the settings are those of the mobile variant, or those of the desktop one
VariantSettings(s, mobile) ==
  /\ "LD_RUNPATH_SEARCH_PATHS" \in DOMAIN s
  /\ IF mobile
     THEN /\ MobileOnlyKeys \subseteq DOMAIN s
          /\ s.LD_RUNPATH_SEARCH_PATHS = "$(inherited) @executable_path/Frameworks"
          /\ "MACOSX_DEPLOYMENT_TARGET" \notin DOMAIN s
          /\ "ONLY_ACTIVE_ARCH" \notin DOMAIN s
     ELSE /\ "MACOSX_DEPLOYMENT_TARGET" \in DOMAIN s
          /\ s.LD_RUNPATH_SEARCH_PATHS = "$(inherited) @executable_path/../Frameworks"
          /\ "ONLY_ACTIVE_ARCH" \in DOMAIN s
          /\ s.ONLY_ACTIVE_ARCH = "YES"
          /\ MobileOnlyKeys \cap DOMAIN s = {}

\* C16: in project/xcode.ts, for every platform set, each build configuration
\* of the target (Debug and Release) carries the settings of exactly one
\* platform variant: the mobile one when the platforms include 'ios', the
\* desktop one when they do not.
C16_OnePlatformVariant ==
  (opts.gen = "project" /\ pc = "done" /\ Written) =>
    LET doc == WrittenDoc
        configs == TargetConfigs(doc)
    IN  /\ Len(configs) = 2
        /\ \A i \in DOMAIN configs :
             /\ Isa(doc.objects, configs[i]) = "XCBuildConfiguration"
             /\ VariantSettings(doc.objects[configs[i]].buildSettings,
                                "ios" \in Range(opts.platforms))

HexDigits == {"0", "1", "2", "3", "4", "5", "6", "7", "8", "9", "A", "B", "C", "D", "E", "F"}

\* C17: every identifier generateUUID returns is a fixed-length hexadecimal
\* token: only hexadecimal digits, and one length for all identifiers of a
\* pass, whatever Math.random returns.
C17_FixedLengthHexToken ==
  token.count > 0 =>
    /\ Range(token.uuid) \subseteq HexDigits
    /\ Cardinality(token.lengths) = 1

\* the document has a file reference of the Obsydian framework, and a build
\* file of the target's Frameworks phase points at it
LinksFramework(doc) ==
  \E ref \in DOMAIN doc.objects :
    /\ Isa(doc.objects, ref) = "PBXFileReference"
    /\ "lastKnownFileType" \in DOMAIN doc.objects[ref]
    /\ doc.objects[ref].lastKnownFileType = "wrapper.xcframework"
    /\ \E i \in PhaseIndexes(doc, "PBXFrameworksBuildPhase") :
         \E bf \in Range(doc.objects[BuildPhasesOf(doc)[i]].files) :
           /\ Isa(doc.objects, bf) = "PBXBuildFile"
           /\ doc.objects[bf].fileRef = ref

\* C18: every `obsydian init` that ends with success has produced a project
\* that includes and links the Obsydian framework, whatever the platform
\* option, the answer to 'Use Obsydian framework?' and the download's outcome.
C18_EveryProjectLinksTheFramework ==
  initCmd.stage = "succeeded" => (Written /\ LinksFramework(WrittenDoc))

\* a file reference of the icon package is a child of the main group and a
\* build file of the target's Resources phase points at it
IconWired(doc) ==
  LET objs == doc.objects
  IN  \E ref \in DOMAIN objs :
        /\ Isa(objs, ref) = "PBXFileReference"
        /\ "lastKnownFileType" \in DOMAIN objs[ref]
        /\ objs[ref].lastKnownFileType = "folder.iconcomposer.icon"
        /\ Isa(objs, doc.rootObject) = "PBXProject"
        /\ Isa(objs, objs[doc.rootObject].mainGroup) = "PBXGroup"
        /\ ref \in Range(objs[objs[doc.rootObject].mainGroup].children)
        /\ \E i \in PhaseIndexes(doc, "PBXResourcesBuildPhase") :
             \E bf \in Range(objs[BuildPhasesOf(doc)[i]].files) :
               Isa(objs, bf) = "PBXBuildFile" /\ objs[bf].fileRef = ref

MenuOver == menu.stage \in {"ended", "exited", "threw"}

\* C20 as worded: after a confirmed subcommand (or the guided flow) has run to
\* completion, whatever its exit code, the next page shown is the page it was
\* launched from; the menu loop ends only when the Exit entry is chosen.
C20_ReturnsToLaunchPage_ExitOnly ==
  /\ (Prompting /\ menu.launched # "") => menu.shown = menu.launched
  /\ MenuOver => menu.action.type = "exit"

\* C20, amended: after such a run the next page shown is the page it was
\* launched from, or the main page when that page was Build & Run or Release
\* and no project root was found when the loop resumed; the function returns
\* only when Exit is chosen, and the loop is otherwise left only by Ctrl+C
\* (exit code 130) or by an exception of the flow or of the spawn.
C20_ReturnsToLaunchPage ==
  /\ (Prompting /\ menu.launched # "") =>
       \/ menu.shown = menu.launched
       \/ menu.fellBack /\ menu.launched \in {"buildRun", "release"} /\ menu.shown = "main"
  /\ menu.stage = "ended" => menu.action.type = "exit"
  /\ menu.stage = "exited" => menu.code = SigintExitCode
  /\ menu.stage = "threw" => menu.action.type \in {"run", "flow"}

\* a subcommand launched from Build & Run has failed and its page is shown again
C20_Witness ==
  /\ Prompting /\ menu.launched = "buildRun" /\ menu.shown = "buildRun"
  /\ menu.code = 1 /\ menu.action.type \in {"run", "flow"}

SettingsComposed(doc) ==
  /\ Len(TargetConfigs(doc)) > 0
  /\ \A i \in DOMAIN TargetConfigs(doc) :
       "ARCHS" \in DOMAIN doc.objects[TargetConfigs(doc)[i]].buildSettings

\* the script phase exists in the graph, so its relocation has been run
ScriptPhasePlaced(doc) ==
  NamedPhaseIndexes(doc, "PBXShellScriptBuildPhase", "Build Obsidian Library") # {}

\* C22: within one generateXcodeProject invocation no document is serialized
\* before settings composition and phase ordering have finished, and the phase
\* relocation never runs before the target's build settings have been composed.
C22_StagesInOrder ==
  opts.gen = "utils" =>
    /\ Written => (SettingsComposed(WrittenDoc) /\ pc \in {"done", "failed"})
    /\ (pc \in {"u_enhanceSettings", "u_writeFinal"} /\ ScriptPhasePlaced(mem.project))
         => SettingsComposed(mem.project)

\* the stages of a pass in which the graph is still being built
GraphIncomplete ==
  pc \in {"u_ensureDirectory", "u_createMinimalProject", "u_writeInitial", "u_open", "u_enhance",
          "u_enhanceSettings", "p_ensureDir", "p_requireFramework", "p_buildGraph"}

\* C23: one invocation writes project.pbxproj exactly once: never a second
\* time, and never before the graph is complete.
C23_WrittenOnce ==
  /\ disk.pbxprojWrites <= 1
  /\ pc = "done" => disk.pbxprojWrites = 1
  /\ disk.pbxprojWrites > 0 => ~GraphIncomplete

\* the keys the Debug and Release overlays of the two generators set
OverlayKeys ==
  {"DEBUG_INFORMATION_FORMAT", "GCC_DYNAMIC_NO_PIC", "GCC_OPTIMIZATION_LEVEL",
   "GCC_PREPROCESSOR_DEFINITIONS", "MTL_ENABLE_DEBUG_INFO", "MTL_FAST_MATH", "COPY_PHASE_STRIP",
   "ENABLE_NS_ASSERTIONS", "ONLY_ACTIVE_ARCH"}

\* the overlays of debug and release did not leak into each other, and the
\* keys of neither overlay have one value in both
NoOverlayLeak(debug, release) ==
  /\ {"GCC_PREPROCESSOR_DEFINITIONS", "GCC_OPTIMIZATION_LEVEL"} \cap DOMAIN release = {}
  /\ "ENABLE_NS_ASSERTIONS" \notin DOMAIN debug
  /\ DOMAIN debug \ OverlayKeys = DOMAIN release \ OverlayKeys
  /\ \A k \in DOMAIN debug \ OverlayKeys : debug[k] = release[k]

\* C24: composing the Debug and Release configurations leaves the shared base
\* settings map unchanged, the Debug-only keys (GCC_PREPROCESSOR_DEFINITIONS,
\* GCC_OPTIMIZATION_LEVEL) never appear in Release, the Release-only key
\* (ENABLE_NS_ASSERTIONS) never appears in Debug, and every base key has the
\* same value in both.
C24_OverlaysDoNotLeak ==
  /\ (opts.gen = "project" /\ mem.project # NoProject) =>
       mem.baseBuildSettings = baseBuildSettings(opts)
  /\ Written =>
       LET doc == WrittenDoc
           configs == TargetConfigs(doc)
           Node(i) == doc.objects[configs[i]]
       IN  \A i, j \in DOMAIN configs :
             (Node(i).isa = "XCBuildConfiguration" /\ Node(i).name = "Debug"
              /\ Node(j).isa = "XCBuildConfiguration" /\ Node(j).name = "Release")
               => NoOverlayLeak(Node(i).buildSettings, Node(j).buildSettings)

\* a document with a Debug configuration carrying DEBUG=1 and a Release
\* configuration carrying ENABLE_NS_ASSERTIONS has been written
C24_Witness ==
  /\ pc = "done" /\ Written
  /\ LET doc == WrittenDoc
         configs == TargetConfigs(doc)
     IN  /\ Len(configs) = 2
         /\ doc.objects[configs[1]].name = "Debug"
         /\ HasEntry(doc.objects[configs[1]].buildSettings, "GCC_PREPROCESSOR_DEFINITIONS", "DEBUG=1")
         /\ doc.objects[configs[2]].name = "Release"
         /\ "ENABLE_NS_ASSERTIONS" \in DOMAIN doc.objects[configs[2]].buildSettings

\* C25: when the framework download fails during `obsydian init`, the project
\* is still created without the framework: init goes on to write the source
\* file, Info.plist and the Xcode project and finishes successfully.
C25_InitGoesOnWithoutFramework ==
  initCmd.downloadFailed =>
    /\ ~(initCmd.stage \in {"generating", "failed"} /\ pc = "failed"
         /\ ~HasPath(opts.frameworkPath))
    /\ initCmd.stage = "succeeded" =>
         ({"main.m", "Info.plist"} \subseteq initCmd.files /\ Written)

\* the minimal document of a pass, from its options and identifiers alone
FreshMinimal == build(createMinimalProject(U_relativeOptions(opts), uuids))

\* the documents a pass can end with, from its options, its identifiers and
\* the icon's presence alone
FreshFinals ==
  LET project == parse(FreshMinimal)
      phases == project.objects[project.objects[project.rootObject].targets[1]].buildPhases
  IN  {build(enhanceProject(project, U_relativeOptions(opts), disk.icon, at)) :
         at \in 0..(Len(phases) + 1)}

\* C26: when project.pbxproj is missing or malformed before the pass,
\* generateXcodeProject of utils/xcodeProject.ts does not fail on it but
\* constructs a fresh minimal graph, and the final document does not depend
\* on the previous content of project.pbxproj.
C26_PriorDocumentIgnored ==
  (opts.gen = "utils" /\ prev \in PriorDocuments) =>
    /\ pc \in {"u_open", "u_enhance", "u_writeFinal"} => disk.pbxproj = FreshMinimal
    /\ pc = "u_open" => ~openThrows(disk.pbxproj)
    /\ pc = "u_enhance" => mem.project = parse(FreshMinimal)
    /\ pc = "done" => disk.pbxproj \in FreshFinals

\* a pass over a malformed project.pbxproj has finished
C26_Witness ==
  opts.gen = "utils" /\ prev = MalformedFile /\ pc = "done" /\ Written

\* ---- C27
\* where in the log a simctl helper was called
CallsOf(op) == {i \in DOMAIN sim.log : sim.log[i].op = op}

\* the first attempt at install and launch threw
FirstAttemptFailed ==
  \E i \in DOMAIN sim.log :
    /\ sim.log[i] \in {Called("install", FALSE), Called("launch", FALSE)}
    /\ \A s \in CallsOf("shutdown") : i < s

\* C27: when install and launch on the simulator fail, terminate, uninstall,
\* install, launch run again once and never a third time, and only after
\* shutdownAsync was called and the simulator then booted; a throw in the
\* retry ends the process with exit code 1; install is attempted at most
\* twice, and launch is only ever called right after an install that returned.
C27_RetryOnceAfterRestart ==
  /\ Cardinality(CallsOf("install")) <= 2
  /\ Cardinality(CallsOf("terminate")) <= 2
  /\ \A i \in CallsOf("launch") : i > 1 /\ sim.log[i - 1] = Called("install", TRUE)
  /\ \A i \in CallsOf("install") :
       i > 2 /\ sim.log[i - 1].op = "uninstall" /\ sim.log[i - 2].op = "terminate"
  /\ \A i, j \in CallsOf("terminate") :
       i < j => /\ FirstAttemptFailed
                /\ \E s \in CallsOf("shutdown"), b \in CallsOf("boot") :
                     i < s /\ s < b /\ b < j /\ sim.log[b].ok
  /\ (FirstAttemptFailed /\ sim.stage \in {"done", "exit"}) =>
       /\ Cardinality(CallsOf("shutdown")) = 1
       /\ Cardinality(CallsOf("boot")) = 2
       /\ sim.stage = "done" => Cardinality(CallsOf("terminate")) = 2
  /\ (sim.attempt = 2 /\ sim.log[Len(sim.log)].op # "shutdown"
        /\ ~sim.log[Len(sim.log)].ok /\ sim.log[Len(sim.log)].op \notin {"terminate", "uninstall"}) =>
       sim.stage = "exit" /\ sim.code = 1
  /\ sim.code = 1 <=> sim.stage = "exit"

\* the first install threw, the simulator was restarted, the second
\* install and the launch went through
C27_Witness ==
  /\ sim.stage = "done"
  /\ sim.attempt = 2
  /\ Cardinality(CallsOf("install")) = 2
  /\ Called("install", FALSE) \in Range(sim.log)

\* ---- C28
\* how often x stands in s
CountIn(s, x) == Cardinality({i \in DOMAIN s : s[i] = x})

\* the buildPhases of the target in the document in memory
TargetPhases == mem.project.objects[mem.project.objects[mem.project.rootObject].targets[1]].buildPhases

\* the 'Build Obsidian Library' phase among them
ScriptPhasesIn(phases) ==
  {x \in Range(phases) :
     /\ mem.project.objects[x].isa = "PBXShellScriptBuildPhase"
     /\ mem.project.objects[x].name = "Build Obsidian Library"}

FrameworksPhasesIn(phases) ==
  {x \in Range(phases) : mem.project.objects[x].isa = "PBXFrameworksBuildPhase"}

\* the indexes at which phases of an isa stand
IsaIndexes(phases, isa) == {i \in DOMAIN phases : mem.project.objects[phases[i]].isa = isa}

SourcesFrameworksResources(phases) ==
  \A i \in IsaIndexes(phases, "PBXSourcesBuildPhase"),
     j \in IsaIndexes(phases, "PBXFrameworksBuildPhase"),
     k \in IsaIndexes(phases, "PBXResourcesBuildPhase") : i < j /\ j < k

\* C28: in utils/xcodeProject.ts with obsidianPath given, the relocation of
\* the script phase leaves in the target's buildPhases exactly the phases it
\* found, each as often as before; the list without the script phase is the
\* same before and after, so Sources, Frameworks, Resources keep their order;
\* and a script phase that already stood before the Frameworks phase leaves
\* the whole list as it was.
C28_RelocationMovesOnlyTheScript ==
  (opts.gen = "utils" /\ HasPath(opts.obsidianPath) /\ pc \in {"u_enhanceSettings", "u_writeFinal", "done"}) =>
    LET before == mem.phasesBefore
        after == TargetPhases
    IN  /\ ScriptPhasesIn(before) # {}
        /\ \A x \in Range(before) \cup Range(after) : CountIn(before, x) = CountIn(after, x)
        /\ \A script \in ScriptPhasesIn(before) :
             /\ FilterNot(before, script) = FilterNot(after, script)
             /\ (\A f \in FrameworksPhasesIn(before) :
                    IndexOf(before, script) < IndexOf(before, f)) => after = before
        /\ SourcesFrameworksResources(before) => SourcesFrameworksResources(after)

\* the script phase was created behind the Frameworks phase and was moved
C28_Witness ==
  /\ opts.gen = "utils" /\ HasPath(opts.obsidianPath) /\ pc = "done" /\ Written
  /\ TargetPhases # mem.phasesBefore
  /\ Len(TargetPhases) = Len(mem.phasesBefore)
  /\ SourcesFrameworksResources(TargetPhases)
  /\ \E script \in ScriptPhasesIn(TargetPhases) : IndexOf(mem.phasesBefore, script) = Len(TargetPhases)

\* ---- C29
\* the places (build phase of the target, index in its files) listing a node
ListingsOf(doc, id) ==
  {<<i, k>> \in (DOMAIN BuildPhasesOf(doc)) \X (1..Cardinality(DOMAIN doc.objects)) :
     LET phase == BuildPhasesOf(doc)[i]
     IN  /\ phase \in DOMAIN doc.objects
         /\ "files" \in DOMAIN doc.objects[phase]
         /\ k \in DOMAIN doc.objects[phase].files
         /\ doc.objects[phase].files[k] = id}

BuildFilesOf(doc) == {id \in DOMAIN doc.objects : doc.objects[id].isa = "PBXBuildFile"}

\* C29: in a written project.pbxproj every PBXBuildFile node of the objects
\* table is listed in the files of exactly one build phase of the target.
C29_BuildFilesInOnePhase ==
  Written => \A id \in BuildFilesOf(WrittenDoc) : Cardinality(ListingsOf(WrittenDoc, id)) = 1

\* ---- C30
\* no download is between its extraction and its validation
CacheAtRest == cache.stage \in {"idle", "getCachedFrameworkPath", "copy", "returned", "threw"}

\* C30: downloadFrameworkWithCache copies into a project only a framework that
\* validateFramework accepts, and outside a running download every
\* Obsydian.xcframework in the cache directory is one that it accepts.
C30_CacheHoldsValidatedOnly ==
  /\ \A c \in cache.copied : c.framework = "valid"
  /\ CacheAtRest => \A v \in FrameworkVersions : cache.frameworks[v] \in {"none", "valid"}

\* a call threw in validateFramework and a later call for the same version
\* copied the framework it had left in the cache
C30_Witness ==
  /\ cache.stage = "returned"
  /\ cache.calls >= 2
  /\ \E c \in cache.copied : c.call = cache.calls /\ c.framework = "invalid"
====
